---- MODULE Spec2Model ----
(***************************************************************************)
(* Model of the analytics engine of performance-bottleneck-analyzer:       *)
(* the statistics library (statistics.ts), the threshold classifier        *)
(* (thresholds.ts) and the RegressionDetector (detector.ts); and of the    *)
(* Transport of its browser agent (transport.ts).                          *)
(*                                                                         *)
(* Numbers.  A JavaScript number is modelled as an exact rational          *)
(* <<numerator, denominator>> in lowest terms with a positive denominator. *)
(* Math.sqrt is the one irrational step of the code; its result is kept as *)
(* the rational it is the root of, and a z-score as its sign and its       *)
(* square, so every comparison the code makes is decided exactly.  The     *)
(* rounding of IEEE doubles is modelled for the detectors only, in the     *)
(* section on rounded numbers.                                             *)
(*                                                                         *)
(* Strings.  Metric names, urls and series keys are sequences of           *)
(* one-character strings, so that key() and split('|') are computed as the *)
(* code computes them.                                                     *)
(***************************************************************************)
EXTENDS Integers, Sequences, FiniteSets, TLC

VARIABLES
    config,     \* RegressionDetector.config
    series,     \* RegressionDetector.series: the Map, as its entries in insertion order
    appended,   \* history: per series key, the points appended since it was last cleared
    ret,        \* the last call and the value it returned
    call,       \* the addDataPoint call on the stack and the statement it is at
    agentConfig,    \* Transport.config
    queue,          \* Transport.queue: the metrics waiting to be flushed
    retryCount,     \* Transport.retryCount
    sends,          \* the unfinished calls of Transport.send, one per payload
    localStorage,   \* the offline queue kept under OFFLINE_QUEUE_KEY
    history         \* what has become of the metrics handed to the Transport

detectorVars == <<config, series, appended, ret, call>>

agentVars == <<agentConfig, queue, retryCount, sends, localStorage, history>>

vars ==
    <<config, series, appended, ret, call,
      agentConfig, queue, retryCount, sends, localStorage, history>>

----------------------------------------------------------------------------
(* Bounds of the model *)

\* most points appended (and not cleared) in a behaviour of Spec
MaxAppends == 4
\* most points appended to one key in a behaviour of SpecStore
MaxStoreAppends == 12
\* most points appended (and not cleared) in a behaviour of SpecKeys
MaxKeyAppends == 3
\* most points appended to one key in a behaviour of SpecSteps
MaxStepAppends == 11
\* longest array handed to a statistics function in SpecPure
MaxStatLen == 3
\* most points appended in a behaviour of SpecAlerts
MaxAlertAppends == 4
\* most points appended in a behaviour of SpecRounded
MaxRoundedAppends == 6
\* most points appended in a behaviour of SpecCustom
MaxCustomAppends == 4
\* the metrics handed to enqueue are numbered 1..MaxMetrics
MaxMetrics == 3
\* the fetches of one payload are counted up to MaxAttempts
MaxAttempts == 3
\* most calls of saveToOfflineQueue in a behaviour of SpecOffline
MaxSaves == 4
\* longest array handed to addDataPoints
MaxBatch == 2
\* Date.now() returns one of 1..MaxNow
MaxNow == 2

----------------------------------------------------------------------------
(* Exact rational arithmetic *)

Abs(x) == IF x < 0 THEN -x ELSE x

Min(a, b) == IF a < b THEN a ELSE b

Max(a, b) == IF a > b THEN a ELSE b

RECURSIVE Gcd(_, _)
Gcd(a, b) == IF b = 0 THEN a ELSE Gcd(b, a % b)

\* n/d in lowest terms, d # 0
Rat(n, d) ==
    LET g == Gcd(Abs(n), Abs(d))
        s == IF d < 0 THEN -1 ELSE 1
    IN  <<(s * n) \div g, (s * d) \div g>>

Num(i) == <<i, 1>>

Zero == Num(0)

RAdd(a, b) == Rat(a[1] * b[2] + b[1] * a[2], a[2] * b[2])

RSub(a, b) == Rat(a[1] * b[2] - b[1] * a[2], a[2] * b[2])

RMul(a, b) == Rat(a[1] * b[1], a[2] * b[2])

\* a / b for b # 0
RDiv(a, b) == Rat(a[1] * b[2], a[2] * b[1])

RNeg(a) == <<-a[1], a[2]>>

RLt(a, b) == a[1] * b[2] < b[1] * a[2]

RLe(a, b) == a[1] * b[2] <= b[1] * a[2]

RGt(a, b) == RLt(b, a)

RSign(a) == IF a[1] > 0 THEN 1 ELSE IF a[1] < 0 THEN -1 ELSE 0

RSq(a) == RMul(a, a)

\* Math.floor of a rational
Floor(a) == a[1] \div a[2]

\* Math.ceil of a rational
Ceil(a) == -((-a[1]) \div a[2])

(* The numbers that are no rationals: NaN, and the value undefined where the code
   reads a number that is not there. *)
NaN == <<"NaN">>

NotThere == <<"undefined">>

\* a * b where either may be NaN or undefined
JsMul(a, b) == IF {a, b} \cap {NaN, NotThere} # {} THEN NaN ELSE RMul(a, b)

\* a + b where either may be NaN or undefined
JsAdd(a, b) == IF {a, b} \cap {NaN, NotThere} # {} THEN NaN ELSE RAdd(a, b)

\* a / b where b may be undefined, b # 0
JsDiv(a, b) == IF {a, b} \cap {NaN, NotThere} # {} THEN NaN ELSE RDiv(a, b)

\* a <= b where b may be undefined: a comparison with NaN or undefined is false
JsLe(a, b) == {a, b} \cap {NaN, NotThere} = {} /\ RLe(a, b)

\* a > b where a may be NaN
JsGt(a, b) == {a, b} \cap {NaN, NotThere} = {} /\ RGt(a, b)

(* A real number x known by its sign and its square (a z-score). *)
ZNum(d, sq) == [sgn |-> d, sq |-> sq]

ZZero == ZNum(0, Zero)

\* x > t, for a rational t
ZGt(x, t) ==
    IF t[1] >= 0 THEN x.sgn > 0 /\ RLt(RSq(t), x.sq)
                 ELSE x.sgn >= 0 \/ RLt(x.sq, RSq(t))

\* x < t, for a rational t
ZLt(x, t) ==
    IF t[1] <= 0 THEN x.sgn < 0 /\ RLt(RSq(t), x.sq)
                 ELSE x.sgn <= 0 \/ RLt(x.sq, RSq(t))

\* Math.abs(x) > t
ZAbsGt(x, t) == IF t[1] < 0 THEN TRUE ELSE RLt(RSq(t), x.sq)

\* Math.abs(x) < t
ZAbsLt(x, t) == IF t[1] <= 0 THEN FALSE ELSE RLt(x.sq, RSq(t))

----------------------------------------------------------------------------
(* JavaScript array helpers *)

\* a relative index of Array.prototype.slice, clamped into 0..len
SliceIndex(i, len) == IF i < 0 THEN Max(len + i, 0) ELSE Min(i, len)

\* arr.slice(start, end)
slice(arr, start, end) ==
    LET s == SliceIndex(start, Len(arr))
        e == SliceIndex(end, Len(arr))
    IN  IF e <= s THEN <<>> ELSE SubSeq(arr, s + 1, e)

\* arr.slice(start)
sliceFrom(arr, start) == slice(arr, start, Len(arr))

\* the points left in the order they were appended in
appendOrder(points) == points

\* [...points].sort((a, b) => a.timestamp - b.timestamp): a stable sort
RECURSIVE sortByTimestamp(_)
sortByTimestamp(points) ==
    IF points = <<>> THEN <<>>
    ELSE LET n == Len(points)
             x == points[n]
             front == sortByTimestamp(SubSeq(points, 1, n - 1))
             keep == Cardinality({i \in 1..(n - 1) : front[i].timestamp <= x.timestamp})
         IN  SubSeq(front, 1, keep) \o <<x>> \o SubSeq(front, keep + 1, n - 1)

\* [...values].sort((a, b) => a - b)
RECURSIVE sortNumeric(_)
sortNumeric(values) ==
    IF values = <<>> THEN <<>>
    ELSE LET n == Len(values)
             x == values[n]
             front == sortNumeric(SubSeq(values, 1, n - 1))
             keep == Cardinality({i \in 1..(n - 1) : RLe(front[i], x)})
         IN  SubSeq(front, 1, keep) \o <<x>> \o SubSeq(front, keep + 1, n - 1)

\* arr[i] for an integer i: undefined outside the array
elementAt(arr, i) == IF 0 <= i /\ i < Len(arr) THEN arr[i + 1] ELSE NotThere

\* sorted.map((p) => p.value)
valuesOf(points) == [i \in 1..Len(points) |-> points[i].value]

RECURSIVE Sum(_)
Sum(values) ==
    IF values = <<>> THEN Zero
    ELSE RAdd(Sum(SubSeq(values, 1, Len(values) - 1)), values[Len(values)])

----------------------------------------------------------------------------
(* statistics.ts *)

mean(values) ==
    IF Len(values) = 0 THEN Zero ELSE RDiv(Sum(values), Num(Len(values)))

\* median without its test for the empty array
medianUnguarded(values) ==
    LET sorted == sortNumeric(values)
        mid == Floor(Rat(Len(sorted), 2))
    IN  IF Len(sorted) % 2 # 0 THEN elementAt(sorted, mid)
        ELSE JsDiv(JsAdd(elementAt(sorted, mid - 1), elementAt(sorted, mid)), Num(2))

median(values) ==
    IF Len(values) = 0 THEN Zero
    ELSE LET sorted == sortNumeric(values)
             mid == Floor(Rat(Len(sorted), 2))
         IN  IF Len(sorted) % 2 # 0 THEN elementAt(sorted, mid)
             ELSE RDiv(RAdd(elementAt(sorted, mid - 1), elementAt(sorted, mid)), Num(2))

variance(values) ==
    IF Len(values) < 2 THEN Zero
    ELSE LET avg == mean(values)
             sq == [i \in 1..Len(values) |-> RSq(RSub(values[i], avg))]
         IN  RDiv(Sum(sq), Num(Len(values) - 1))

\* Math.sqrt(variance(values)), kept as the rational it is the root of
stdDev(values) == [sq |-> variance(values)]

percentile(values, p) ==
    IF Len(values) = 0 THEN Zero
    ELSE LET sorted == sortNumeric(values)
             index == RMul(RDiv(p, Num(100)), Num(Len(sorted) - 1))
             lower == Floor(index)
             upper == Ceil(index)
             weight == RSub(index, Num(lower))
         IN  IF lower = upper THEN elementAt(sorted, lower)
             ELSE JsAdd(JsMul(elementAt(sorted, lower), RSub(Num(1), weight)),
                        JsMul(elementAt(sorted, upper), weight))

zScore(value, populationMean, populationStdDev) ==
    IF populationStdDev.sq = Zero THEN ZZero
    ELSE LET d == RSub(value, populationMean)
         IN  ZNum(RSign(d), RDiv(RSq(d), populationStdDev.sq))

\* movingAverage(values, windowSize), for an integer windowSize: the loop runs i
\* from windowSize - 1 to values.length - 1
movingAverage(values, windowSize) ==
    IF Len(values) < windowSize THEN <<mean(values)>>
    ELSE [j \in 1..(Len(values) - windowSize + 1) |->
             LET i == windowSize - 1 + (j - 1)
             IN  mean(slice(values, i - windowSize + 1, i + 1))]

\* ewma without its first entry, the unsmoothed values[0]
ewmaUnseeded(values, alpha) ==
    [i \in 1..(Len(values) - 1) |->
        RAdd(RMul(alpha, values[i + 1]), RMul(RSub(Num(1), alpha), values[i]))]

RECURSIVE ewma(_, _)
ewma(values, alpha) ==
    IF Len(values) = 0 THEN <<>>
    ELSE IF Len(values) = 1 THEN <<values[1]>>
    ELSE LET n == Len(values)
             result == ewma(SubSeq(values, 1, n - 1), alpha)
         IN  Append(result,
                    RAdd(RMul(alpha, values[n]),
                         RMul(RSub(Num(1), alpha), result[n - 1])))

linearTrend(values) ==
    IF Len(values) < 2 THEN [slope |-> Zero, direction |-> "stable"]
    ELSE LET n == Len(values)
             xMean == Rat(n - 1, 2)
             yMean == mean(values)
             \* the loop index i of the code runs over 0..n-1
             num == [i \in 1..n |->
                        RMul(RSub(Num(i - 1), xMean), RSub(values[i], yMean))]
             den == [i \in 1..n |-> RSq(RSub(Num(i - 1), xMean))]
             numerator == Sum(num)
             denominator == Sum(den)
             slope == IF denominator = Zero THEN Zero
                      ELSE RDiv(numerator, denominator)
             normalizedSlope == IF yMean = Zero THEN Zero ELSE RDiv(slope, yMean)
             direction ==
                 IF RLt(Rat(Abs(normalizedSlope[1]), normalizedSlope[2]), Rat(5, 1000))
                 THEN "stable"
                 ELSE IF RGt(normalizedSlope, Zero) THEN "degrading" ELSE "improving"
         IN  [slope |-> slope, direction |-> direction]

----------------------------------------------------------------------------
(* Strings *)

\* the value of an optional string that was not given
Undefined == <<"undefined">>

\* JavaScript truthiness of an optional string: neither undefined nor ""
Truthy(str) == str # Undefined /\ str # <<>>

\* seriesKey.includes('|')
includesBar(str) == \E i \in 1..Len(str) : str[i] = "|"

\* seriesKey.split('|'), for a non-empty string
RECURSIVE splitBar(_)
splitBar(str) ==
    IF ~includesBar(str) THEN <<str>>
    ELSE LET i == CHOOSE j \in 1..Len(str) :
                     str[j] = "|" /\ \A h \in 1..(j - 1) : str[h] # "|"
         IN  <<SubSeq(str, 1, i - 1)>> \o splitBar(SubSeq(str, i + 1, Len(str)))

\* parts[i] of a JavaScript array: undefined past its end
at(parts, i) == IF i + 1 <= Len(parts) THEN parts[i + 1] ELSE Undefined

LCP == <<"L", "C", "P">>

FID == <<"F", "I", "D">>

CLS == <<"C", "L", "S">>

INP == <<"I", "N", "P">>

TTFB == <<"T", "T", "F", "B">>

FCP == <<"F", "C", "P">>

LongTask == <<"l", "o", "n", "g", "-", "t", "a", "s", "k">>

ResourceLoad == <<"r", "e", "s", "o", "u", "r", "c", "e", "-", "l", "o", "a", "d">>

----------------------------------------------------------------------------
(* thresholds.ts *)

WEB_VITALS_THRESHOLDS ==
    (LCP :> [good |-> Num(2500), needsImprovement |-> Num(4000)]) @@
    (FID :> [good |-> Num(100), needsImprovement |-> Num(300)]) @@
    (CLS :> [good |-> Rat(1, 10), needsImprovement |-> Rat(25, 100)]) @@
    (INP :> [good |-> Num(200), needsImprovement |-> Num(500)]) @@
    (TTFB :> [good |-> Num(800), needsImprovement |-> Num(1800)]) @@
    (FCP :> [good |-> Num(1800), needsImprovement |-> Num(3000)]) @@
    (LongTask :> [good |-> Num(50), needsImprovement |-> Num(100)]) @@
    (ResourceLoad :> [good |-> Num(500), needsImprovement |-> Num(1500)])

\* a customThresholds argument that was not given
NoThresholds == [n \in {} |-> [good |-> Zero, needsImprovement |-> Zero]]

(* WEB_VITALS_THRESHOLDS and customThresholds are plain objects: obj[name] is the
   own entry of that name or, for a name of Object.prototype, the member every
   object inherits, a truthy value that has neither good nor needsImprovement. *)
ConstructorName == <<"c", "o", "n", "s", "t", "r", "u", "c", "t", "o", "r">>

ToStringName == <<"t", "o", "S", "t", "r", "i", "n", "g">>

ObjectPrototypeNames == {ConstructorName, ToStringName}

Inherited == [good |-> NotThere, needsImprovement |-> NotThere]

\* obj[name]: <<>> when it is undefined
lookup(obj, name) ==
    IF name \in DOMAIN obj THEN <<obj[name]>>
    ELSE IF name \in ObjectPrototypeNames THEN <<Inherited>>
    ELSE <<>>

\* customThresholds?.[name] || WEB_VITALS_THRESHOLDS[name]; <<>> when neither has name
thresholdsFor(name, customThresholds) ==
    IF lookup(customThresholds, name) # <<>> THEN lookup(customThresholds, name)
    ELSE lookup(WEB_VITALS_THRESHOLDS, name)

\* rateMetric with a value on a boundary rated on the worse side of it
rateMetricBelow(name, value, customThresholds) ==
    LET thresholds == thresholdsFor(name, customThresholds)
    IN  IF thresholds = <<>>
        THEN IF RLt(value, Num(1000)) THEN "good"
             ELSE IF RLt(value, Num(3000)) THEN "needs-improvement"
             ELSE "poor"
        ELSE IF JsLe(value, thresholds[1].good) /\ value # thresholds[1].good THEN "good"
             ELSE IF /\ JsLe(value, thresholds[1].needsImprovement)
                     /\ value # thresholds[1].needsImprovement
                  THEN "needs-improvement"
             ELSE "poor"

rateMetric(name, value, customThresholds) ==
    LET thresholds == thresholdsFor(name, customThresholds)
    IN  IF thresholds = <<>>
        THEN IF RLe(value, Num(1000)) THEN "good"
             ELSE IF RLe(value, Num(3000)) THEN "needs-improvement"
             ELSE "poor"
        ELSE IF JsLe(value, thresholds[1].good) THEN "good"
             ELSE IF JsLe(value, thresholds[1].needsImprovement) THEN "needs-improvement"
             ELSE "poor"

\* getSeverity with the two ratios exchanged
getSeverityExchanged(name, value, customThresholds) ==
    LET thresholds == thresholdsFor(name, customThresholds)
    IN  IF thresholds = <<>> THEN "info"
        ELSE LET ratio == JsDiv(value, thresholds[1].needsImprovement)
             IN  IF JsGt(ratio, Num(1)) THEN "critical"
                 ELSE IF JsGt(ratio, Rat(3, 2)) THEN "warning"
                 ELSE "info"

\* getSeverity, for thresholds whose needsImprovement boundary is not 0
getSeverity(name, value, customThresholds) ==
    LET thresholds == thresholdsFor(name, customThresholds)
    IN  IF thresholds = <<>> THEN "info"
        ELSE LET ratio == JsDiv(value, thresholds[1].needsImprovement)
             IN  IF JsGt(ratio, Rat(3, 2)) THEN "critical"
                 ELSE IF JsGt(ratio, Num(1)) THEN "warning"
                 ELSE "info"

----------------------------------------------------------------------------
(* detector.ts: configuration and the series store *)

DEFAULT_CONFIG ==
    [windowSize |-> 30,
     zScoreThreshold |-> Rat(25, 10),
     minSamples |-> 10,
     regressionPercentThreshold |-> Rat(2, 10)]

\* constructor: { ...DEFAULT_CONFIG, ...config }
construct(overrides) ==
    [f \in DOMAIN DEFAULT_CONFIG \cup DOMAIN overrides |->
        IF f \in DOMAIN overrides THEN overrides[f] ELSE DEFAULT_CONFIG[f]]

\* key(name, url) leaving the url out
keyOfName(name, url) == name

\* key(name, url)
key(name, url) == IF Truthy(url) THEN name \o <<"|">> \o url ELSE name

(* The Map: a sequence of entries [key, points] in insertion order. *)
mapHas(m, k) == \E i \in 1..Len(m) : m[i].key = k

mapIndex(m, k) == CHOOSE i \in 1..Len(m) : m[i].key = k

mapGet(m, k) == m[mapIndex(m, k)].points

mapSet(m, k, points) ==
    IF mapHas(m, k)
    THEN [m EXCEPT ![mapIndex(m, k)] = [key |-> k, points |-> points]]
    ELSE Append(m, [key |-> k, points |-> points])

mapDelete(m, k) ==
    IF mapHas(m, k)
    THEN SubSeq(m, 1, mapIndex(m, k) - 1) \o SubSeq(m, mapIndex(m, k) + 1, Len(m))
    ELSE m

\* addDataPoint with the series cut to the last windowSize points, not windowSize * 10
addDataPointCutToWindow(s, cfg, point) ==
    LET k == key(point.name, point.url)
        s1 == IF ~mapHas(s, k) THEN mapSet(s, k, <<>>) ELSE s
        s2 == mapSet(s1, k, Append(mapGet(s1, k), point))
        maxSize == cfg.windowSize * 10
        arr == mapGet(s2, k)
    IN  IF Len(arr) > maxSize THEN mapSet(s2, k, sliceFrom(arr, -cfg.windowSize)) ELSE s2

\* addDataPoint(point), on the store s under configuration cfg
addDataPoint(s, cfg, point) ==
    LET k == key(point.name, point.url)
        s1 == IF ~mapHas(s, k) THEN mapSet(s, k, <<>>) ELSE s
        s2 == mapSet(s1, k, Append(mapGet(s1, k), point))
        maxSize == cfg.windowSize * 10
        arr == mapGet(s2, k)
    IN  IF Len(arr) > maxSize THEN mapSet(s2, k, sliceFrom(arr, -maxSize)) ELSE s2

\* addDataPoints(points)
RECURSIVE addDataPoints(_, _, _)
addDataPoints(s, cfg, points) ==
    IF points = <<>> THEN s
    ELSE addDataPoints(addDataPoint(s, cfg, Head(points)), cfg, Tail(points))

\* clear removing every series, whatever its arguments
clearAll(s, metricName, url) == <<>>

\* clear(metricName, url)
clear(s, metricName, url) ==
    IF Truthy(metricName) THEN mapDelete(s, key(metricName, url)) ELSE <<>>

\* getSeriesCount()
getSeriesCount(s) == Len(s)

\* getDataPointCount(metricName, url): this.series.get(key)?.length || 0
getDataPointCount(s, metricName, url) ==
    IF mapHas(s, key(metricName, url)) THEN Len(mapGet(s, key(metricName, url))) ELSE 0

----------------------------------------------------------------------------
(* detector.ts: the detectors *)

\* the baseline taken as the last windowSize values, the latest one among them
baselineWithLatest(values, cfg) == sliceFrom(values, -cfg.windowSize)

\* the baseline of detectAnomalies: the window that precedes the latest value
baselineOf(values, cfg) == slice(values, -cfg.windowSize - 1, -1)

\* directionOf with the lower bound not negated
directionOfNotNegated(z, cfg) ==
    IF ZGt(z, cfg.zScoreThreshold) THEN "up"
    ELSE IF ZLt(z, cfg.zScoreThreshold) THEN "down"
    ELSE "none"

\* the direction detectAnomalies reports for the z-score z
directionOf(z, cfg) ==
    IF ZGt(z, cfg.zScoreThreshold) THEN "up"
    ELSE IF ZLt(z, RNeg(cfg.zScoreThreshold)) THEN "down"
    ELSE "none"

\* the callback of detectAnomalies' forEach: the results it pushes for one entry
anomalyOf(cfg, entry) ==
    LET points == entry.points
        seriesKey == entry.key
    IN  IF Len(points) < cfg.minSamples THEN <<>>
        ELSE LET sorted == sortByTimestamp(points)
                 values == valuesOf(sorted)
                 latest == sorted[Len(sorted)]
                 baselineValues == baselineOf(values, cfg)
             IN  IF Len(baselineValues) < cfg.minSamples THEN <<>>
                 ELSE LET baselineMean == mean(baselineValues)
                          baselineStdDev == stdDev(baselineValues)
                          z == zScore(latest.value, baselineMean, baselineStdDev)
                      IN  <<[metric |-> seriesKey,
                             value |-> latest.value,
                             timestamp |-> latest.timestamp,
                             zScore |-> z,
                             isAnomaly |-> ZAbsGt(z, cfg.zScoreThreshold),
                             direction |-> directionOf(z, cfg)]>>

\* detectAnomalies()
RECURSIVE detectAnomalies(_, _)
detectAnomalies(s, cfg) ==
    IF s = <<>> THEN <<>>
    ELSE detectAnomalies(SubSeq(s, 1, Len(s) - 1), cfg) \o anomalyOf(cfg, s[Len(s)])

\* x.toFixed(1): the number of tenths nearest to x, a tie going away from zero
toFixed1(x) ==
    LET a == Rat(Abs(x[1]), x[2])
    IN  RSign(x) * Floor(RAdd(RMul(a, Num(10)), Rat(1, 2)))

\* severityOf with the two percentage bounds exchanged
severityOfExchanged(percentageChange, metricName, currMean) ==
    IF RGt(percentageChange, Rat(3, 10)) THEN "critical"
    ELSE IF RGt(percentageChange, Rat(5, 10)) THEN "warning"
    ELSE getSeverity(metricName, currMean, NoThresholds)

\* the severity detectRegressions gives an alert
severityOf(percentageChange, metricName, currMean) ==
    IF RGt(percentageChange, Rat(5, 10)) THEN "critical"
    ELSE IF RGt(percentageChange, Rat(3, 10)) THEN "warning"
    ELSE getSeverity(metricName, currMean, NoThresholds)

\* the significance gate taken from the configured zScoreThreshold
insignificantByConfig(z, cfg) == ZAbsLt(z, cfg.zScoreThreshold)

\* the significance gate of detectRegressions: Math.abs(z) < 1.5, under this.config = cfg
insignificant(z, cfg) == ZAbsLt(z, Rat(15, 10))

\* the previous window taken one value later, its last value in the current window
previousWindowOverlapping(values, windowSize) ==
    slice(values, -windowSize * 2 + 1, -windowSize + 1)

\* the previous window of detectRegressions: values.slice(-windowSize * 2, -windowSize)
previousWindowOf(values, windowSize) == slice(values, -windowSize * 2, -windowSize)

\* regressionOf with the customThresholds of the configuration handed to getSeverity
regressionOfWithOverrides(cfg, entry, now) ==
    LET points == entry.points
        seriesKey == entry.key
        customThresholds == IF "customThresholds" \in DOMAIN cfg THEN cfg.customThresholds
                            ELSE NoThresholds
    IN  IF Len(points) < cfg.minSamples * 2 THEN <<>>
        ELSE LET sorted == sortByTimestamp(points)
                 values == valuesOf(sorted)
                 windowSize == Min(cfg.windowSize, Len(values) \div 2)
                 currentWindow == sliceFrom(values, -windowSize)
                 previousWindow == previousWindowOf(values, windowSize)
                 prevMean == mean(previousWindow)
                 currMean == mean(currentWindow)
                 absoluteChange == RSub(currMean, prevMean)
                 percentageChange == RDiv(absoluteChange, prevMean)
                 prevStdDev == stdDev(previousWindow)
                 z == zScore(currMean, prevMean, prevStdDev)
                 metricName == at(splitBar(seriesKey), 0)
                 url == IF includesBar(seriesKey) THEN at(splitBar(seriesKey), 1)
                        ELSE Undefined
             IN  IF Len(previousWindow) < cfg.minSamples THEN <<>>
                 ELSE IF prevMean = Zero THEN <<>>
                 ELSE IF RLt(percentageChange, cfg.regressionPercentThreshold) THEN <<>>
                 ELSE IF insignificant(z, cfg) THEN <<>>
                 ELSE <<[metric |-> metricName,
                         url |-> url,
                         previousValue |-> prevMean,
                         currentValue |-> currMean,
                         absoluteChange |-> absoluteChange,
                         percentageChange |-> percentageChange,
                         zScore |-> z,
                         severity |->
                             IF RGt(percentageChange, Rat(5, 10)) THEN "critical"
                             ELSE IF RGt(percentageChange, Rat(3, 10)) THEN "warning"
                             ELSE getSeverity(metricName, currMean, customThresholds),
                         detectedAt |-> now,
                         windowSize |-> windowSize,
                         message |->
                             [metric |-> metricName,
                              percent |-> toFixed1(RMul(percentageChange, Num(100))),
                              from |-> toFixed1(prevMean),
                              to |-> toFixed1(currMean),
                              on |-> IF Truthy(url) THEN url ELSE <<>>]]>>

\* the callback of detectRegressions' forEach: the alerts it pushes for one entry,
\* when Date.now() returns now
regressionOf(cfg, entry, now) ==
    LET points == entry.points
        seriesKey == entry.key
    IN  IF Len(points) < cfg.minSamples * 2 THEN <<>>
        ELSE LET sorted == sortByTimestamp(points)
                 values == valuesOf(sorted)
                 windowSize == Min(cfg.windowSize, Len(values) \div 2)
                 currentWindow == sliceFrom(values, -windowSize)
                 previousWindow == previousWindowOf(values, windowSize)
                 prevMean == mean(previousWindow)
                 currMean == mean(currentWindow)
                 absoluteChange == RSub(currMean, prevMean)
                 percentageChange == RDiv(absoluteChange, prevMean)
                 prevStdDev == stdDev(previousWindow)
                 z == zScore(currMean, prevMean, prevStdDev)
                 metricName == at(splitBar(seriesKey), 0)
                 url == IF includesBar(seriesKey) THEN at(splitBar(seriesKey), 1)
                        ELSE Undefined
             IN  IF Len(previousWindow) < cfg.minSamples THEN <<>>
                 ELSE IF prevMean = Zero THEN <<>>
                 ELSE IF RLt(percentageChange, cfg.regressionPercentThreshold) THEN <<>>
                 ELSE IF insignificant(z, cfg) THEN <<>>
                 ELSE <<[metric |-> metricName,
                         url |-> url,
                         previousValue |-> prevMean,
                         currentValue |-> currMean,
                         absoluteChange |-> absoluteChange,
                         percentageChange |-> percentageChange,
                         zScore |-> z,
                         severity |-> severityOf(percentageChange, metricName, currMean),
                         detectedAt |-> now,
                         windowSize |-> windowSize,
                         message |->
                             [metric |-> metricName,
                              percent |-> toFixed1(RMul(percentageChange, Num(100))),
                              from |-> toFixed1(prevMean),
                              to |-> toFixed1(currMean),
                              on |-> IF Truthy(url) THEN url ELSE <<>>]]>>

\* detectRegressions(), when Date.now() returns now
RECURSIVE detectRegressions(_, _, _)
detectRegressions(s, cfg, now) ==
    IF s = <<>> THEN <<>>
    ELSE detectRegressions(SubSeq(s, 1, Len(s) - 1), cfg, now)
            \o regressionOf(cfg, s[Len(s)], now)

Null == [null |-> TRUE]

\* the guard of analyzeTrend without its length test
trendUnavailableIfMissing(s, cfg, k) == ~mapHas(s, k)

\* the guard of analyzeTrend: !points || points.length < minSamples
trendUnavailable(s, cfg, k) ==
    ~mapHas(s, k) \/ Len(mapGet(s, k)) < cfg.minSamples

\* the recent window taken from the start of the values
recentWindowFromStart(values, windowSize) == slice(values, 0, windowSize)

\* the recent window of analyzeTrend: values.slice(-windowSize)
recentWindow(values, windowSize) == sliceFrom(values, -windowSize)

\* analyzeTrend(metricName, url)
analyzeTrend(s, cfg, metricName, url) ==
    LET k == key(metricName, url)
    IN  IF trendUnavailable(s, cfg, k) THEN Null
        ELSE LET sorted == sortByTimestamp(mapGet(s, k))
                 values == valuesOf(sorted)
                 trend == linearTrend(values)
                 ewmaValues == ewma(values, Rat(3, 10))
                 windowSize == Min(cfg.windowSize, Len(values) \div 2)
             IN  [direction |-> trend.direction,
                  slope |-> trend.slope,
                  ewmaValues |-> ewmaValues,
                  recentMean |-> mean(recentWindow(values, windowSize)),
                  baselineMean |-> mean(slice(values, 0, windowSize))]

----------------------------------------------------------------------------
(* The detectors on rounded numbers.  Above, every operation is exact.  A
   JavaScript number is a binary floating-point number: each of +, -, * and /
   returns the representable number nearest to the exact result, a tie going to
   the even significand.  Here the significand has Precision bits (a double has
   53) and the exponent is unbounded.  Math.sqrt and the quotient of zScore stay
   exact, a z-score being kept as its sign and its square. *)

\* the bits of a significand
Precision == 3

\* the unit in the last place of the positive rational a: the power of two u with
\* 2^(Precision-1) <= a/u < 2^Precision, searched from u
RECURSIVE ulp(_, _)
ulp(a, u) ==
    IF RLe(RMul(Num(2^Precision), u), a) THEN ulp(a, RMul(u, Num(2)))
    ELSE IF RLt(a, RMul(Num(2^(Precision - 1)), u)) THEN ulp(a, RDiv(u, Num(2)))
    ELSE u

\* the integer nearest to the positive rational q, the even one of two equally near
nearestEven(q) ==
    LET m == Floor(q)
        twice == 2 * (q[1] - m * q[2])
    IN  IF twice > q[2] \/ (twice = q[2] /\ m % 2 = 1) THEN m + 1 ELSE m

\* the multiple of u nearest to the rational x
roundToUlp(x, u) ==
    RMul(Num(RSign(x) * nearestEven(RDiv(<<Abs(x[1]), x[2]>>, u))), u)

\* the representable number nearest to the rational x
RoundDouble(x) ==
    IF x = Zero THEN Zero ELSE roundToUlp(x, ulp(<<Abs(x[1]), x[2]>>, Num(1)))

\* a + b, a - b, a * b and a / b on numbers
DAdd(a, b) == RoundDouble(RAdd(a, b))

DSub(a, b) == RoundDouble(RSub(a, b))

DMul(a, b) == RoundDouble(RMul(a, b))

DDiv(a, b) == RoundDouble(RDiv(a, b))

\* values.reduce((sum, v) => sum + v, 0)
RECURSIVE sumRounded(_)
sumRounded(values) ==
    IF values = <<>> THEN Zero
    ELSE DAdd(sumRounded(SubSeq(values, 1, Len(values) - 1)), values[Len(values)])

\* mean(values)
meanRounded(values) ==
    IF Len(values) = 0 THEN Zero ELSE DDiv(sumRounded(values), Num(Len(values)))

\* variance(values)
varianceRounded(values) ==
    IF Len(values) < 2 THEN Zero
    ELSE LET avg == meanRounded(values)
             sq == [i \in 1..Len(values) |->
                       LET d == DSub(values[i], avg) IN DMul(d, d)]
         IN  DDiv(sumRounded(sq), Num(Len(values) - 1))

\* stdDev(values): zero exactly when the variance is
stdDevRounded(values) == [sq |-> varianceRounded(values)]

\* zScore(value, populationMean, populationStdDev)
zScoreRounded(value, populationMean, populationStdDev) ==
    IF populationStdDev.sq = Zero THEN ZZero
    ELSE LET d == DSub(value, populationMean)
         IN  ZNum(RSign(d), RDiv(RSq(d), populationStdDev.sq))

\* the callback of detectAnomalies' forEach
anomalyOfRounded(cfg, entry) ==
    LET points == entry.points
        seriesKey == entry.key
    IN  IF Len(points) < cfg.minSamples THEN <<>>
        ELSE LET sorted == sortByTimestamp(points)
                 values == valuesOf(sorted)
                 latest == sorted[Len(sorted)]
                 baselineValues == baselineOf(values, cfg)
             IN  IF Len(baselineValues) < cfg.minSamples THEN <<>>
                 ELSE LET baselineMean == meanRounded(baselineValues)
                          baselineStdDev == stdDevRounded(baselineValues)
                          z == zScoreRounded(latest.value, baselineMean, baselineStdDev)
                      IN  <<[metric |-> seriesKey,
                             value |-> latest.value,
                             timestamp |-> latest.timestamp,
                             zScore |-> z,
                             isAnomaly |-> ZAbsGt(z, cfg.zScoreThreshold),
                             direction |-> directionOf(z, cfg)]>>

\* detectAnomalies()
RECURSIVE detectAnomaliesRounded(_, _)
detectAnomaliesRounded(s, cfg) ==
    IF s = <<>> THEN <<>>
    ELSE detectAnomaliesRounded(SubSeq(s, 1, Len(s) - 1), cfg)
            \o anomalyOfRounded(cfg, s[Len(s)])

\* the callback of detectRegressions' forEach, when Date.now() returns now
regressionOfRounded(cfg, entry, now) ==
    LET points == entry.points
        seriesKey == entry.key
    IN  IF Len(points) < cfg.minSamples * 2 THEN <<>>
        ELSE LET sorted == sortByTimestamp(points)
                 values == valuesOf(sorted)
                 windowSize == Min(cfg.windowSize, Len(values) \div 2)
                 currentWindow == sliceFrom(values, -windowSize)
                 previousWindow == previousWindowOf(values, windowSize)
             IN  IF Len(previousWindow) < cfg.minSamples THEN <<>>
                 ELSE LET prevMean == meanRounded(previousWindow)
                          currMean == meanRounded(currentWindow)
                      IN  IF prevMean = Zero THEN <<>>
                          ELSE LET absoluteChange == DSub(currMean, prevMean)
                                   percentageChange == DDiv(absoluteChange, prevMean)
                                   prevStdDev == stdDevRounded(previousWindow)
                                   z == zScoreRounded(currMean, prevMean, prevStdDev)
                                   metricName == at(splitBar(seriesKey), 0)
                                   url == IF includesBar(seriesKey)
                                          THEN at(splitBar(seriesKey), 1)
                                          ELSE Undefined
                               IN  IF RLt(percentageChange, cfg.regressionPercentThreshold)
                                   THEN <<>>
                                   ELSE IF insignificant(z, cfg) THEN <<>>
                                   ELSE <<[metric |-> metricName,
                                           url |-> url,
                                           previousValue |-> prevMean,
                                           currentValue |-> currMean,
                                           absoluteChange |-> absoluteChange,
                                           percentageChange |-> percentageChange,
                                           zScore |-> z,
                                           severity |->
                                               severityOf(percentageChange, metricName,
                                                          currMean),
                                           detectedAt |-> now,
                                           windowSize |-> windowSize,
                                           message |->
                                               [metric |-> metricName,
                                                percent |->
                                                    toFixed1(DMul(percentageChange,
                                                                  Num(100))),
                                                from |-> toFixed1(prevMean),
                                                to |-> toFixed1(currMean),
                                                on |-> IF Truthy(url) THEN url
                                                       ELSE <<>>]]>>

\* detectRegressions(), when Date.now() returns now
RECURSIVE detectRegressionsRounded(_, _, _)
detectRegressionsRounded(s, cfg, now) ==
    IF s = <<>> THEN <<>>
    ELSE detectRegressionsRounded(SubSeq(s, 1, Len(s) - 1), cfg, now)
            \o regressionOfRounded(cfg, s[Len(s)], now)

----------------------------------------------------------------------------
(* Inputs *)

UrlA == <<"/", "a">>

MetricDataPoint(name, url, value, timestamp) ==
    [name |-> name, url |-> url, value |-> Num(value), timestamp |-> timestamp]

\* the points appended in Spec: a series CLS on /a of positive values and a series
\* LCP without url of negative values; in both, values rise, fall and repeat, and
\* the points of timestamp 1 may arrive after those of timestamp 2
Points ==
    {MetricDataPoint(CLS, UrlA, v, 1) : v \in {5, 6}} \cup
    {MetricDataPoint(CLS, UrlA, 9, 2)} \cup
    {MetricDataPoint(LCP, Undefined, v, 1) : v \in {-5, -6}} \cup
    {MetricDataPoint(LCP, Undefined, -9, 2)}

\* the arrays handed to addDataPoints in Spec
BatchPoints ==
    {MetricDataPoint(CLS, UrlA, 9, 2), MetricDataPoint(LCP, Undefined, -6, 1)}

Batches == UNION {[1..n -> BatchPoints] : n \in 0..MaxBatch}

\* the configurations given to the constructor in Spec
Overrides ==
    {[windowSize |-> w, minSamples |-> m] : w \in {1, 2}, m \in {1, 2}} \cup
    {[windowSize |-> 2, minSamples |-> 2, zScoreThreshold |-> Num(-1)]}

\* the configurations given to the constructor in SpecStore
StoreOverrides == {[windowSize |-> w] : w \in {0, 1}}

StoreUrls == {Undefined, UrlA}

\* the i-th point appended to the series LCP of url in SpecStore
StorePoint(url, i) == MetricDataPoint(LCP, url, i, i)

\* the points appended in SpecKeys: names with and without the separator '|', and
\* urls that are absent, empty, and given
KeyNames == {LCP, <<"a">>, <<"a", "|", "b">>}

KeyUrls == {Undefined, <<>>, <<"b">>}

KeyPoints == {MetricDataPoint(n, u, 1, 1) : n \in KeyNames, u \in KeyUrls}

\* the arguments of clear in SpecKeys
KeyClearArgs == {<<LCP, Undefined>>, <<<<"a">>, <<"b">>>>, <<Undefined, Undefined>>}

\* the series of SpecAlerts: names and urls with and without the separator '|'
AlertNames == {LCP, <<"a", "|", "b">>}

AlertUrls == {Undefined, UrlA, <<"x", "|", "y">>}

\* the values of the points of a series of SpecAlerts, in the order they are
\* appended in: a rise that detectRegressions reports once four of them are stored
AlertValues == <<1, 2, 9, 9, 9>>

\* the i-th point appended to the series of name and url in SpecAlerts
AlertPoint(name, url, i) == MetricDataPoint(name, url, AlertValues[i], i)

AllKeys ==
    {key(p.name, p.url) : p \in Points \cup KeyPoints} \cup
    {key(LCP, u) : u \in StoreUrls} \cup
    {key(n, u) : n \in AlertNames, u \in AlertUrls}

\* the arguments <<metricName, url>> of analyzeTrend, getDataPointCount and clear
Args == {<<CLS, UrlA>>, <<LCP, Undefined>>, <<FID, Undefined>>}

\* the arguments of clear: those, none (clear()), and the empty name (clear(''))
ClearArgs == Args \cup {<<Undefined, Undefined>>, <<<<>>, Undefined>>}

RECURSIVE SumLen(_, _)
SumLen(f, ks) ==
    IF ks = {} THEN 0
    ELSE LET k == CHOOSE x \in ks : TRUE IN Len(f[k]) + SumLen(f, ks \ {k})

\* the number of points appended and not cleared
NumAppended == SumLen(appended, AllKeys)

----------------------------------------------------------------------------
(* transport.ts: the Transport of the browser agent.  A metric is known by a
   number.  localStorage holds, under OFFLINE_QUEUE_KEY, the array of metrics
   written there, the empty array when the key is absent. *)

\* DEFAULT_CONFIG of the agent, the fields the Transport reads
DEFAULT_AGENT_CONFIG == [batchSize |-> 10, maxRetries |-> 3, enableOfflineQueue |-> TRUE]

\* what is remembered of the metrics: those handed to enqueue, the number of
\* payloads each was placed in, those in a payload that was sent, the number of
\* saveToOfflineQueue calls, and the metrics of the calls that wrote to
\* localStorage, in the order saved
NoHistory == [enqueued |-> {}, placed |-> <<>>, sent |-> {}, calls |-> 0, saved |-> <<>>]

\* the metrics handed to enqueue
Metrics == 1..MaxMetrics

\* a metric that an earlier page left in the offline queue
OldMetric == 0

\* the elements of an array
Range(arr) == {arr[i] : i \in 1..Len(arr)}

\* the entries the offline queue is cut to: the literal of queue.slice(-1000)
OfflineQueueCap == 1000

\* saveToOfflineQueue with the array cut to its first entries
saveToOfflineQueueOldest(stored, metrics) == slice(stored \o metrics, 0, OfflineQueueCap)

\* saveToOfflineQueue(metrics) when localStorage holds stored and does not throw:
\* the array it writes back
saveToOfflineQueue(stored, metrics) == sliceFrom(stored \o metrics, -OfflineQueueCap)

\* send(payload) up to its await: the fetch of the payload of metrics is under way
sending(metrics) == [metrics |-> metrics, pc |-> "fetch", attempts |-> 1]

\* flush() that leaves the metrics it sends in the queue
flushKeeping(q, ss) ==
    IF Len(q) = 0 THEN [queue |-> q, sends |-> ss, placed |-> <<>>]
    ELSE [queue |-> q, sends |-> ss \cup {sending(q)}, placed |-> q]

\* flush() up to its await, on the queue q and the unfinished sends ss: the queue
\* and the sends it leaves, and the metrics it placed in a payload
flush(q, ss) ==
    IF Len(q) = 0 THEN [queue |-> q, sends |-> ss, placed |-> <<>>]
    ELSE [queue |-> <<>>, sends |-> ss \cup {sending(q)}, placed |-> q]

\* the state of a specification that has no Transport
NoAgent ==
    /\ agentConfig = DEFAULT_AGENT_CONFIG
    /\ queue = <<>>
    /\ retryCount = 0
    /\ sends = {}
    /\ localStorage = <<>>
    /\ history = NoHistory

----------------------------------------------------------------------------
(* State machine *)

\* no call is on the stack
Idle == [pc |-> "idle"]

Fresh ==
    /\ series = <<>>
    /\ appended = [k \in AllKeys |-> <<>>]
    /\ ret = [op |-> "constructor"]
    /\ call = Idle
    /\ NoAgent

\* The methods are synchronous and the runtime has one thread: a call starts when
\* no call is on the stack and has returned before the next one starts.  The
\* detector shares nothing with the browser agent.
RunToCompletion == call = Idle /\ call' = Idle /\ UNCHANGED agentVars

Init == config \in {construct(o) : o \in Overrides} /\ Fresh

InitStore == config \in {construct(o) : o \in StoreOverrides} /\ Fresh

RECURSIVE record(_, _)
record(hist, points) ==
    IF points = <<>> THEN hist
    ELSE LET p == Head(points)
         IN  record([hist EXCEPT ![key(p.name, p.url)] = Append(@, p)], Tail(points))

AddDataPoint(point) ==
    /\ series' = addDataPoint(series, config, point)
    /\ appended' = record(appended, <<point>>)
    /\ ret' = [op |-> "addDataPoint"]
    /\ UNCHANGED config
    /\ RunToCompletion

AddDataPoints(points) ==
    /\ series' = addDataPoints(series, config, points)
    /\ appended' = record(appended, points)
    /\ ret' = [op |-> "addDataPoints"]
    /\ UNCHANGED config
    /\ RunToCompletion

\* In the value a detector returns, again tells that the call before it was the
\* same call, with the same arguments.
DetectAnomalies ==
    /\ ret' = [op |-> "detectAnomalies",
               val |-> detectAnomalies(series, config),
               again |-> ret.op = "detectAnomalies"]
    /\ UNCHANGED <<config, series, appended>>
    /\ RunToCompletion

\* detectRegressions dropping the series it has evaluated
DetectRegressionsConsuming ==
    /\ \E now \in 1..MaxNow :
          ret' = [op |-> "detectRegressions",
                  val |-> detectRegressions(series, config, now),
                  again |-> ret.op = "detectRegressions"]
    /\ series' = <<>>
    /\ UNCHANGED <<config, appended>>
    /\ RunToCompletion

DetectRegressions ==
    /\ \E now \in 1..MaxNow :
          ret' = [op |-> "detectRegressions",
                  val |-> detectRegressions(series, config, now),
                  again |-> ret.op = "detectRegressions"]
    /\ UNCHANGED <<config, series, appended>>
    /\ RunToCompletion

GetSeriesCount ==
    /\ ret' = [op |-> "getSeriesCount", val |-> getSeriesCount(series)]
    /\ UNCHANGED <<config, series, appended>>
    /\ RunToCompletion

\* getDataPointCount creating the series it is asked about
GetDataPointCountCreating(metricName, url) ==
    /\ ret' = [op |-> "getDataPointCount", name |-> metricName, url |-> url,
               val |-> getDataPointCount(series, metricName, url)]
    /\ series' = IF mapHas(series, key(metricName, url)) THEN series
                 ELSE mapSet(series, key(metricName, url), <<>>)
    /\ UNCHANGED <<config, appended>>
    /\ RunToCompletion

GetDataPointCount(metricName, url) ==
    /\ ret' = [op |-> "getDataPointCount", name |-> metricName, url |-> url,
               val |-> getDataPointCount(series, metricName, url)]
    /\ UNCHANGED <<config, series, appended>>
    /\ RunToCompletion

AnalyzeTrend(metricName, url) ==
    /\ ret' = [op |-> "analyzeTrend", name |-> metricName, url |-> url,
               val |-> analyzeTrend(series, config, metricName, url),
               again |-> /\ ret.op = "analyzeTrend"
                         /\ ret.name = metricName
                         /\ ret.url = url]
    /\ UNCHANGED <<config, series, appended>>
    /\ RunToCompletion

\* In the record clear leaves in ret, had is the number of series before the call.
Clear(metricName, url) ==
    /\ series' = clear(series, metricName, url)
    /\ appended' =
          IF Truthy(metricName)
          THEN [k \in AllKeys |->
                   IF k = key(metricName, url) THEN <<>> ELSE appended[k]]
          ELSE [k \in AllKeys |-> <<>>]
    /\ ret' = [op |-> "clear", name |-> metricName, url |-> url,
               had |-> getSeriesCount(series)]
    /\ UNCHANGED config
    /\ RunToCompletion

Next ==
    \/ \E p \in Points : NumAppended < MaxAppends /\ AddDataPoint(p)
    \/ \E ps \in Batches : NumAppended + Len(ps) <= MaxAppends /\ AddDataPoints(ps)
    \/ DetectAnomalies
    \/ DetectRegressions
    \/ \E a \in Args : AnalyzeTrend(a[1], a[2])
    \/ GetSeriesCount
    \/ \E a \in Args : GetDataPointCount(a[1], a[2])
    \/ \E a \in ClearArgs : Clear(a[1], a[2])

Spec == Init /\ [][Next]_vars

\* the next n points appended to the series LCP of url
StoreBatch(url, n) ==
    [i \in 1..n |-> StorePoint(url, Len(appended[key(LCP, url)]) + i)]

NextStore ==
    \/ \E u \in StoreUrls :
          /\ Len(appended[key(LCP, u)]) < MaxStoreAppends
          /\ AddDataPoint(StorePoint(u, Len(appended[key(LCP, u)]) + 1))
    \/ \E u \in StoreUrls, n \in 0..MaxBatch :
          /\ Len(appended[key(LCP, u)]) + n <= MaxStoreAppends
          /\ AddDataPoints(StoreBatch(u, n))
    \/ \E n \in {LCP, Undefined}, u \in StoreUrls : Clear(n, u)

SpecStore == InitStore /\ [][NextStore]_vars

(* addDataPoint statement by statement: the states a call goes through between
   its first and its last statement. *)

\* the call is made: const k = this.key(point.name, point.url)
Enter(point) ==
    /\ call = Idle
    /\ call' = [pc |-> "has", point |-> point, k |-> key(point.name, point.url)]
    /\ UNCHANGED <<config, series, appended, ret>>
    /\ UNCHANGED agentVars

\* if (!this.series.has(k)) this.series.set(k, [])
StepHas ==
    /\ call.pc = "has"
    /\ series' = IF ~mapHas(series, call.k) THEN mapSet(series, call.k, <<>>) ELSE series
    /\ call' = [call EXCEPT !.pc = "push"]
    /\ UNCHANGED <<config, appended, ret>>
    /\ UNCHANGED agentVars

\* this.series.get(k)!.push(point)
StepPush ==
    /\ call.pc = "push"
    /\ series' = mapSet(series, call.k, Append(mapGet(series, call.k), call.point))
    /\ appended' = record(appended, <<call.point>>)
    /\ call' = [call EXCEPT !.pc = "bound"]
    /\ UNCHANGED <<config, ret>>
    /\ UNCHANGED agentVars

\* if (arr.length > maxSize) this.series.set(k, arr.slice(-maxSize)), and the return
StepBound ==
    /\ call.pc = "bound"
    /\ LET maxSize == config.windowSize * 10
           arr == mapGet(series, call.k)
       IN  series' = IF Len(arr) > maxSize
                     THEN mapSet(series, call.k, sliceFrom(arr, -maxSize))
                     ELSE series
    /\ call' = Idle
    /\ ret' = [op |-> "addDataPoint"]
    /\ UNCHANGED <<config, appended>>
    /\ UNCHANGED agentVars

\* the configurations given to the constructor in SpecSteps
StepOverrides == {[windowSize |-> w, minSamples |-> 1] : w \in {0, 1}}

InitSteps == config \in {construct(o) : o \in StepOverrides} /\ Fresh

NextSteps ==
    \/ \E u \in StoreUrls :
          /\ Len(appended[key(LCP, u)]) < MaxStepAppends
          /\ Enter(StorePoint(u, Len(appended[key(LCP, u)]) + 1))
    \/ StepHas
    \/ StepPush
    \/ StepBound
    \/ DetectAnomalies
    \/ DetectRegressions

SpecSteps == InitSteps /\ [][NextSteps]_vars

InitKeys == config = construct(<<>>) /\ Fresh

InitAlerts == config = construct([windowSize |-> 2, minSamples |-> 2]) /\ Fresh

NextAlerts ==
    \/ \E n \in AlertNames, u \in AlertUrls :
          /\ NumAppended < MaxAlertAppends
          /\ AddDataPoint(AlertPoint(n, u, Len(appended[key(n, u)]) + 1))
    \/ DetectRegressions

SpecAlerts == InitAlerts /\ [][NextAlerts]_vars

(* The detectors on rounded numbers: one series of LCP points, appended in the
   order of their timestamps, under windows of three values. *)

\* the values appended: numbers a significand of Precision bits holds
RoundedValues == {3, 7}

RoundedPoint(v, i) == MetricDataPoint(LCP, Undefined, v, i)

DetectAnomaliesRounded ==
    /\ ret' = [op |-> "detectAnomalies",
               val |-> detectAnomaliesRounded(series, config),
               again |-> ret.op = "detectAnomalies"]
    /\ UNCHANGED <<config, series, appended>>
    /\ RunToCompletion

DetectRegressionsRounded ==
    /\ \E now \in 1..MaxNow :
          ret' = [op |-> "detectRegressions",
                  val |-> detectRegressionsRounded(series, config, now),
                  again |-> ret.op = "detectRegressions"]
    /\ UNCHANGED <<config, series, appended>>
    /\ RunToCompletion

InitRounded == config = construct([windowSize |-> 3, minSamples |-> 3]) /\ Fresh

NextRounded ==
    \/ \E v \in RoundedValues :
          /\ NumAppended < MaxRoundedAppends
          /\ AddDataPoint(RoundedPoint(v, Len(appended[LCP]) + 1))
    \/ DetectAnomaliesRounded
    \/ DetectRegressionsRounded

SpecRounded == InitRounded /\ [][NextRounded]_vars

(* Detectors that differ in customThresholds: one series of LCP points, appended
   in the order of their timestamps, under windows of two values. *)

\* the customThresholds given to the constructor
CustomThresholds ==
    {LCP :> [good |-> Num(50), needsImprovement |-> Num(100)],
     LCP :> [good |-> Num(50), needsImprovement |-> Num(80)]}

\* the configurations given to the constructor in SpecCustom
CustomOverrides ==
    {[windowSize |-> 2, minSamples |-> 2]} \cup
    {[windowSize |-> 2, minSamples |-> 2, customThresholds |-> c] : c \in CustomThresholds}

\* the values appended: 100, 101, 125, 125 is a rise of 24 percent
CustomValues == {100, 101, 125}

CustomPoint(v, i) == MetricDataPoint(LCP, Undefined, v, i)

InitCustom == config \in {construct(o) : o \in CustomOverrides} /\ Fresh

NextCustom ==
    \/ \E v \in CustomValues :
          /\ NumAppended < MaxCustomAppends
          /\ AddDataPoint(CustomPoint(v, Len(appended[LCP]) + 1))
    \/ DetectAnomalies
    \/ DetectRegressions
    \/ AnalyzeTrend(LCP, Undefined)

SpecCustom == InitCustom /\ [][NextCustom]_vars

(* The Transport.  The runtime has one thread: a call, and the part of an async
   function between two awaits, runs to its end before anything else does.  The
   environment decides whether a fetch succeeds, whether sendBeacon accepts a
   payload and whether localStorage throws. *)

\* the state of a specification that has no detector
NoDetector ==
    /\ config = construct(<<>>)
    /\ series = <<>>
    /\ appended = [k \in AllKeys |-> <<>>]
    /\ ret = [op |-> "constructor"]
    /\ call = Idle

\* the configurations given to the Transport
AgentConfigs ==
    {[batchSize |-> b, maxRetries |-> r, enableOfflineQueue |-> o] :
        b \in {1, 2}, r \in {1, 2}, o \in BOOLEAN}

\* history h once the metrics ms were placed in one more payload
Placed(h, ms) ==
    [h EXCEPT !.placed = [m \in DOMAIN @ |-> IF m \in Range(ms) THEN Min(@[m] + 1, 2)
                                                                 ELSE @[m]]]

\* saveToOfflineQueue(ms), the history being h: the try block writes the array
\* back, or localStorage throws and nothing is written
Save(h, ms, throws) ==
    /\ localStorage' = IF throws THEN localStorage
                       ELSE saveToOfflineQueue(localStorage, ms)
    /\ history' = [h EXCEPT !.calls = @ + 1,
                            !.saved = IF throws THEN @ ELSE @ \o ms]

\* metric m is in the hands of the Transport or in the offline queue
Held(m) ==
    \/ m \in Range(queue)
    \/ \E s \in sends : m \in Range(s.metrics)
    \/ m \in Range(localStorage)

\* The page produces metrics without end; the number m is used again for a new
\* metric once the earlier metric m was sent.
\* enqueue(metric), with the flush() it calls up to flush's await
Enqueue(m) ==
    /\ m \notin history.enqueued \/ (m \in history.sent /\ ~Held(m))
    /\ LET q == Append(queue, m)
           h == [history EXCEPT !.enqueued = @ \cup {m},
                                !.sent = @ \ {m},
                                !.placed[m] = 0]
           f == IF Len(q) >= agentConfig.batchSize THEN flush(q, sends)
                ELSE [queue |-> q, sends |-> sends, placed |-> <<>>]
       IN  /\ queue' = f.queue
           /\ sends' = f.sends
           /\ history' = Placed(h, f.placed)
    /\ UNCHANGED <<agentConfig, retryCount, localStorage>>
    /\ UNCHANGED detectorVars

\* flush(), called by the interval timer and by the agent, up to its await
Flush ==
    /\ Len(queue) # 0
    /\ LET f == flush(queue, sends)
       IN  /\ queue' = f.queue
           /\ sends' = f.sends
           /\ history' = Placed(history, f.placed)
    /\ UNCHANGED <<agentConfig, retryCount, localStorage>>
    /\ UNCHANGED detectorVars

\* flushWithBeacon(), when sendBeacon returns sent (or throws, which is handled as
\* a refusal) and localStorage throws or does not
FlushWithBeacon(sent, throws) ==
    /\ Len(queue) # 0
    /\ queue' = <<>>
    /\ IF sent
       THEN /\ history' = [Placed(history, queue) EXCEPT !.sent = @ \cup Range(queue)]
            /\ UNCHANGED localStorage
       ELSE Save(Placed(history, queue), queue, throws)
    /\ UNCHANGED <<agentConfig, retryCount, sends>>
    /\ UNCHANGED detectorVars

\* send(payload) from the point its fetch settles: ok tells that the response was
\* ok, otherwise the catch block runs
FetchSettles(s, ok, throws) ==
    /\ s \in sends
    /\ s.pc = "fetch"
    /\ IF ok
       THEN /\ retryCount' = 0
            /\ sends' = sends \ {s}
            /\ history' = [history EXCEPT !.sent = @ \cup Range(s.metrics)]
            /\ UNCHANGED localStorage
       ELSE IF retryCount + 1 < agentConfig.maxRetries
       THEN /\ retryCount' = retryCount + 1
            /\ sends' = (sends \ {s}) \cup {[s EXCEPT !.pc = "timer"]}
            /\ UNCHANGED <<localStorage, history>>
       ELSE /\ retryCount' = 0
            /\ sends' = sends \ {s}
            /\ IF agentConfig.enableOfflineQueue THEN Save(history, s.metrics, throws)
               ELSE UNCHANGED <<localStorage, history>>
    /\ UNCHANGED <<agentConfig, queue>>
    /\ UNCHANGED detectorVars

\* the timeout set by the catch block of send runs: send(payload) again, up to its
\* await
RetryFires(s) ==
    /\ s \in sends
    /\ s.pc = "timer"
    /\ sends' = (sends \ {s}) \cup
                    {[s EXCEPT !.pc = "fetch", !.attempts = Min(@ + 1, MaxAttempts)]}
    /\ UNCHANGED <<agentConfig, queue, retryCount, localStorage, history>>
    /\ UNCHANGED detectorVars

\* The constructor, with enableOfflineQueue on, calls drainOfflineQueue: what the
\* offline queue held is removed from localStorage and is being sent.
InitTransport ==
    /\ agentConfig \in AgentConfigs
    /\ queue = <<>>
    /\ retryCount = 0
    /\ sends \in IF agentConfig.enableOfflineQueue THEN {{}, {sending(<<OldMetric>>)}}
                 ELSE {{}}
    /\ localStorage = <<>>
    /\ history = [NoHistory EXCEPT !.placed = [m \in Metrics |-> 0]]
    /\ NoDetector

NextTransport ==
    \/ \E m \in Metrics : Enqueue(m)
    \/ Flush
    \/ \E sent \in BOOLEAN, throws \in BOOLEAN : FlushWithBeacon(sent, throws)
    \/ \E s \in sends, ok \in BOOLEAN, throws \in BOOLEAN : FetchSettles(s, ok, throws)
    \/ \E s \in sends : RetryFires(s)

SpecTransport == InitTransport /\ [][NextTransport]_vars

(* The scheduling of the Transport: the interval timer keeps firing, so a queue
   that is not empty is flushed; every fetch settles, with a response or with an
   error; and every timeout that was set fires.  Nothing obliges the page to
   produce metrics or to be hidden. *)
TransportFairness ==
    /\ WF_vars(Flush)
    /\ \A m \in Metrics \cup {OldMetric} :
          /\ WF_vars(\E s \in sends, ok \in BOOLEAN, throws \in BOOLEAN :
                        m \in Range(s.metrics) /\ FetchSettles(s, ok, throws))
          /\ WF_vars(\E s \in sends : m \in Range(s.metrics) /\ RetryFires(s))

SpecTransportFair == InitTransport /\ [][NextTransport]_vars /\ TransportFairness

(* saveToOfflineQueue alone: a sequence of calls on batches of a few sizes, the
   metrics of a call known by the number of the call and their place in it. *)

\* the lengths of the arrays handed to saveToOfflineQueue
OfflineBatches == {1, 600, 1001}

\* saveToOfflineQueue(metrics) on the next n metrics
SaveToOfflineQueue(n, throws) ==
    /\ history.calls < MaxSaves
    /\ Save(history, [i \in 1..n |-> <<history.calls + 1, i>>], throws)
    /\ UNCHANGED <<agentConfig, queue, retryCount, sends>>
    /\ UNCHANGED detectorVars

InitOffline == NoDetector /\ NoAgent

NextOffline == \E n \in OfflineBatches, throws \in BOOLEAN : SaveToOfflineQueue(n, throws)

SpecOffline == InitOffline /\ [][NextOffline]_vars

(* The pure functions of statistics.ts and thresholds.ts.  The initial state lays
   out the arguments of one call, and each action is the call of one function on
   them, its arguments and its return value left in ret. *)

\* the numbers in the arrays: negative, zero, small, and large ones that differ little
StatNumbers == {Num(-2), Zero, Num(1), Num(300), Num(301)}

StatValues == UNION {[1..n -> StatNumbers] : n \in 0..MaxStatLen}

\* the numeric parameter: p of percentile, windowSize of movingAverage, alpha of
\* ewma, value of zScore
StatParams ==
    {Num(-1), Zero, Rat(3, 10), Num(1), Num(2), Num(25), Num(50), Num(100), Num(200)}

\* metric names: two of the table, one unknown, one that every object inherits
RateNames == {LCP, CLS, <<"x">>, ConstructorName}

\* values on, next to and between the boundaries of the table, the generic
\* boundaries 1000/3000, the custom boundaries, and 1.5 times the upper boundaries
RateValues ==
    {Num(v) : v \in {-1, 0, 1, 2, 3, 4, 1000, 1001, 2500, 2501, 3000, 3001, 4000,
                     4001, 4500, 4501, 6000, 6001}} \cup
    {Rat(1, 10), Rat(11, 100), Rat(1, 4), Rat(26, 100), Rat(3, 8), Rat(2, 5)}

RateCustoms ==
    {NoThresholds,
     LCP :> [good |-> Num(1), needsImprovement |-> Num(2)],
     <<"x">> :> [good |-> Num(1), needsImprovement |-> Num(2)],
     LCP :> [good |-> Num(3000), needsImprovement |-> Num(1000)]}

StatArgs == {[op |-> "args", values |-> v, x |-> x] : v \in StatValues, x \in StatParams}

RateArgs ==
    {[op |-> "args", name |-> n, value |-> v, customThresholds |-> c] :
        n \in RateNames, v \in RateValues, c \in RateCustoms}

InitPure ==
    /\ config = construct(<<>>)
    /\ series = <<>>
    /\ appended = [k \in AllKeys |-> <<>>]
    /\ call = Idle
    /\ ret \in StatArgs \cup RateArgs
    /\ NoAgent

\* the arguments laid out are those of a statistics function
OnValues == ret.op = "args" /\ "values" \in DOMAIN ret

\* the arguments laid out are those of a threshold function
OnMetric == ret.op = "args" /\ "name" \in DOMAIN ret

Pure == UNCHANGED <<config, series, appended, call>> /\ UNCHANGED agentVars

CallMean ==
    /\ OnValues
    /\ ret' = [op |-> "mean", values |-> ret.values, val |-> mean(ret.values)]
    /\ Pure

CallMedian ==
    /\ OnValues
    /\ ret' = [op |-> "median", values |-> ret.values, val |-> median(ret.values)]
    /\ Pure

CallVariance ==
    /\ OnValues
    /\ ret' = [op |-> "variance", values |-> ret.values, val |-> variance(ret.values)]
    /\ Pure

CallStdDev ==
    /\ OnValues
    /\ ret' = [op |-> "stdDev", values |-> ret.values, val |-> stdDev(ret.values)]
    /\ Pure

CallPercentile ==
    /\ OnValues
    /\ ret' = [op |-> "percentile", values |-> ret.values, p |-> ret.x,
               val |-> percentile(ret.values, ret.x)]
    /\ Pure

\* zScore of the parameter against the mean and the standard deviation of the array
CallZScore ==
    /\ OnValues
    /\ ret' = [op |-> "zScore", value |-> ret.x,
               populationMean |-> mean(ret.values),
               populationStdDev |-> stdDev(ret.values),
               val |-> zScore(ret.x, mean(ret.values), stdDev(ret.values))]
    /\ Pure

\* movingAverage, for the integer parameters up to 2
CallMovingAverage ==
    /\ OnValues
    /\ ret.x[2] = 1 /\ ret.x[1] <= 2
    /\ ret' = [op |-> "movingAverage", values |-> ret.values, windowSize |-> ret.x[1],
               val |-> movingAverage(ret.values, ret.x[1])]
    /\ Pure

\* ewma, for the parameters up to 2
CallEwma ==
    /\ OnValues
    /\ RLe(ret.x, Num(2))
    /\ ret' = [op |-> "ewma", values |-> ret.values, alpha |-> ret.x,
               val |-> ewma(ret.values, ret.x)]
    /\ Pure

CallLinearTrend ==
    /\ OnValues
    /\ ret' = [op |-> "linearTrend", values |-> ret.values,
               val |-> linearTrend(ret.values)]
    /\ Pure

CallRateMetric ==
    /\ OnMetric
    /\ ret' = [op |-> "rateMetric", name |-> ret.name, value |-> ret.value,
               customThresholds |-> ret.customThresholds,
               val |-> rateMetric(ret.name, ret.value, ret.customThresholds)]
    /\ Pure

CallGetSeverity ==
    /\ OnMetric
    /\ ret' = [op |-> "getSeverity", name |-> ret.name, value |-> ret.value,
               customThresholds |-> ret.customThresholds,
               val |-> getSeverity(ret.name, ret.value, ret.customThresholds)]
    /\ Pure

NextPure ==
    \/ CallMean
    \/ CallMedian
    \/ CallVariance
    \/ CallStdDev
    \/ CallPercentile
    \/ CallZScore
    \/ CallMovingAverage
    \/ CallEwma
    \/ CallLinearTrend
    \/ CallRateMetric
    \/ CallGetSeverity

SpecPure == InitPure /\ [][NextPure]_vars

NextKeys ==
    \/ \E p \in KeyPoints : NumAppended < MaxKeyAppends /\ AddDataPoint(p)
    \/ \E a \in KeyClearArgs : Clear(a[1], a[2])
    \/ GetSeriesCount

SpecKeys == InitKeys /\ [][NextKeys]_vars

----------------------------------------------------------------------------
(* Vocabulary of the claims *)

\* the points stored under key k, none when the store has no such series
Stored(k) == IF mapHas(series, k) THEN mapGet(series, k) ELSE <<>>

StoredNext(k) == IF mapHas(series', k) THEN mapGet(series', k) ELSE <<>>

\* the last n elements of seq
LastN(seq, n) == SubSeq(seq, Len(seq) - n + 1, Len(seq))

\* the state of a series of n points: 0 COLD, 1 ANOMALY-CAPABLE, 2 REGRESSION-CAPABLE
Stage(n) ==
    IF n < config.minSamples THEN 0 ELSE IF n < 2 * config.minSamples THEN 1 ELSE 2

Appending == ret'.op \in {"addDataPoint", "addDataPoints"}

----------------------------------------------------------------------------
(* Claims about the series store, checked under SpecStore *)

\* C1: after any sequence of addDataPoint / addDataPoints calls, every series in
\* the store holds at most windowSize * 10 points.
C1_SeriesBounded ==
    \A i \in 1..Len(series) : Len(series[i].points) <= config.windowSize * 10

\* C2: after m points have been appended to one series key, the series holds
\* exactly the last min(m, windowSize * 10) appended points, in the order they
\* were appended.
C2_HoldsLastAppended ==
    \A k \in AllKeys :
        Stored(k) = LastN(appended[k], Min(Len(appended[k]), config.windowSize * 10))

\* C10: under appends alone the stored point count of a series never decreases,
\* so a series never falls back to an earlier state.
C10_CountMonotonic ==
    [][Appending =>
          \A k \in AllKeys :
              /\ Len(StoredNext(k)) >= Len(Stored(k))
              /\ Stage(Len(StoredNext(k))) >= Stage(Len(Stored(k)))]_vars

\* C10 witness: a series that was cut back to its bound, after it became
\* ANOMALY-CAPABLE, still holds windowSize * 10 points
C10_Witness ==
    \E k \in AllKeys :
        /\ config.windowSize >= 1
        /\ Len(appended[k]) > Len(Stored(k))
        /\ Len(Stored(k)) = config.windowSize * 10
        /\ Stage(Len(Stored(k))) >= 1
        /\ ret.op = "addDataPoint"

----------------------------------------------------------------------------
(* Claims about the detectors, checked under Spec.  A detector's return value is
   read from ret, which every append and clear overwrites: the store is still the
   one the call saw. *)

\* the results of the detectAnomalies call that has just returned
Anomalies == IF ret.op = "detectAnomalies" THEN ret.val ELSE <<>>

\* the alerts of the detectRegressions call that has just returned
Alerts == IF ret.op = "detectRegressions" THEN ret.val ELSE <<>>

\* the number of results that detectAnomalies returned for the series of key k
ResultsFor(k) == Cardinality({j \in 1..Len(Anomalies) : Anomalies[j].metric = k})

\* alerts without the time they were raised at
Undated(alerts) == [i \in 1..Len(alerts) |-> [alerts[i] EXCEPT !.detectedAt = 0]]

\* values of zScoreThreshold a detector could have been given instead
ZThresholds == {Num(-1), Zero, Rat(1, 2), Rat(5, 2), Num(10)}

\* C3: a series holding fewer than minSamples points produces no output from any
\* detector, and one holding fewer than 2 * minSamples points no RegressionAlert.
C3_ColdSeriesSilent ==
    /\ \A j \in 1..Len(Anomalies) :
          Len(Stored(Anomalies[j].metric)) >= config.minSamples
    /\ \A j \in 1..Len(Alerts) :
          Len(Stored(key(Alerts[j].metric, Alerts[j].url))) >= 2 * config.minSamples
    /\ ret.op = "analyzeTrend" =>
          (/\ mapHas(series, key(ret.name, ret.url))
           /\ Len(Stored(key(ret.name, ret.url))) < config.minSamples
           => ret.val = Null)

\* C3 witness: a sweep reported one series and kept silent on another that holds
\* points, but fewer than minSamples
C3_Witness ==
    /\ ret.op = "detectAnomalies"
    /\ ret.val # <<>>
    /\ \E i \in 1..Len(series) :
          /\ Len(series[i].points) >= 1
          /\ Len(series[i].points) < config.minSamples
          /\ ResultsFor(series[i].key) = 0

\* C4 as claimed: detectAnomalies() returns exactly one AnomalyResult for each
\* series that holds at least minSamples points.
C4_OneResultPerWarmSeries ==
    ret.op = "detectAnomalies" =>
        \A i \in 1..Len(series) :
            Len(series[i].points) >= config.minSamples
                => ResultsFor(series[i].key) = 1

\* C4 as amended: detectAnomalies() returns exactly one AnomalyResult for each
\* series of n >= minSamples points whose baseline, the min(windowSize, n - 1)
\* points before the latest one, holds at least minSamples points too, and no
\* result for any other series.
C4_OneResultPerBaselinedSeries ==
    ret.op = "detectAnomalies" =>
        /\ \A i \in 1..Len(series) :
              LET n == Len(series[i].points)
              IN  ResultsFor(series[i].key) =
                      IF n >= config.minSamples
                         /\ Min(config.windowSize, n - 1) >= config.minSamples
                      THEN 1 ELSE 0
        /\ \A j \in 1..Len(ret.val) : mapHas(series, ret.val[j].metric)

\* C4 witness: one sweep reported a series and skipped a series that holds exactly
\* minSamples points
C4_Witness ==
    /\ ret.op = "detectAnomalies"
    /\ \E i \in 1..Len(series) : ResultsFor(series[i].key) = 1
    /\ \E i \in 1..Len(series) :
          /\ Len(series[i].points) = config.minSamples
          /\ ResultsFor(series[i].key) = 0

\* C5 as claimed: isAnomaly is true iff direction is not 'none'; direction is 'up'
\* exactly when zScore > zScoreThreshold and 'down' exactly when
\* zScore < -zScoreThreshold.
C5_DirectionByThreshold ==
    \A j \in 1..Len(Anomalies) :
        LET r == Anomalies[j]
        IN  /\ r.isAnomaly <=> r.direction # "none"
            /\ r.direction = "up" <=> ZGt(r.zScore, config.zScoreThreshold)
            /\ r.direction = "down" <=> ZLt(r.zScore, RNeg(config.zScoreThreshold))

\* C5 as amended: isAnomaly is true iff direction is not 'none'; direction is 'up'
\* exactly when zScore > zScoreThreshold, and 'down' exactly when
\* zScore < -zScoreThreshold and not zScore > zScoreThreshold.
C5_DirectionUpFirst ==
    \A j \in 1..Len(Anomalies) :
        LET r == Anomalies[j]
        IN  /\ r.isAnomaly <=> r.direction # "none"
            /\ r.direction = "up" <=> ZGt(r.zScore, config.zScoreThreshold)
            /\ r.direction = "down" <=>
                  /\ ZLt(r.zScore, RNeg(config.zScoreThreshold))
                  /\ ~ZGt(r.zScore, config.zScoreThreshold)

\* C5 witness: under a negative threshold a z-score lies both above the threshold
\* and below its negation, and is reported 'up'
C5_Witness ==
    \E j \in 1..Len(Anomalies) :
        /\ Anomalies[j].direction = "up"
        /\ Anomalies[j].isAnomaly
        /\ ZLt(Anomalies[j].zScore, RNeg(config.zScoreThreshold))

\* C6: every RegressionAlert has currentValue greater than previousValue
\* (absoluteChange > 0); a series whose current-window mean is not higher than its
\* previous-window mean yields no alert.
C6_OnlyDegradations ==
    \A j \in 1..Len(Alerts) :
        /\ RGt(Alerts[j].currentValue, Alerts[j].previousValue)
        /\ RGt(Alerts[j].absoluteChange, Zero)

\* the call that has just returned repeats the call before it
Repeated ==
    /\ ret'.op \in {"detectAnomalies", "detectRegressions", "analyzeTrend"}
    /\ ret'.again

\* C7 as claimed: calling detectAnomalies, detectRegressions or analyzeTrend
\* repeatedly with no addDataPoint call in between returns identical results.
C7_Idempotent == [][Repeated => ret'.val = ret.val]_vars

\* C7 as amended: the repeated call returns identical results, except for the
\* detectedAt of the RegressionAlerts, which is the time of each call.
C7_IdempotentButDetectedAt ==
    [][Repeated =>
          IF ret'.op = "detectRegressions"
          THEN Undated(ret'.val) = Undated(ret.val)
          ELSE ret'.val = ret.val]_vars

\* C7 witness: detectRegressions was called twice in a row and returned an alert
C7_Witness ==
    /\ ret.op = "detectRegressions"
    /\ ret.again
    /\ ret.val # <<>>

\* C8: every RegressionAlert has |zScore| >= 1.5, and the alerts are those the
\* detector would return under any other zScoreThreshold.
C8_FixedSignificanceGate ==
    ret.op = "detectRegressions" =>
        /\ \A j \in 1..Len(ret.val) : ~ZAbsLt(ret.val[j].zScore, Rat(3, 2))
        /\ \A t \in ZThresholds :
              Undated(detectRegressions(series, [config EXCEPT !.zScoreThreshold = t], 0))
                  = Undated(ret.val)

\* C8 witness: an alert whose z-score the configured threshold 2.5 would not
\* have called an anomaly
C8_Witness ==
    \E j \in 1..Len(Alerts) :
        /\ config.zScoreThreshold = Rat(5, 2)
        /\ ~ZAbsGt(Alerts[j].zScore, config.zScoreThreshold)

\* C9: an alert's severity is 'critical' when percentageChange > 0.5, 'warning'
\* when 0.3 < percentageChange <= 0.5, and otherwise getSeverity of the metric name
\* and the current-window mean.
C9_Severity ==
    \A j \in 1..Len(Alerts) :
        LET a == Alerts[j]
        IN  a.severity =
                IF RGt(a.percentageChange, Rat(1, 2)) THEN "critical"
                ELSE IF RGt(a.percentageChange, Rat(3, 10))
                        /\ RLe(a.percentageChange, Rat(1, 2)) THEN "warning"
                ELSE getSeverity(a.metric, a.currentValue, NoThresholds)

\* C9 witness: an alert of at most 30 % that the threshold table rates critical
C9_Witness ==
    \E j \in 1..Len(Alerts) :
        /\ RLe(Alerts[j].percentageChange, Rat(3, 10))
        /\ Alerts[j].severity = "critical"

----------------------------------------------------------------------------
(* Claims about clear, checked under Spec *)

\* the step removes the series of key k, if there is one, and nothing else
RemovesOnly(k) ==
    /\ ~mapHas(series', k)
    /\ \A i \in 1..Len(series) :
          series[i].key # k =>
              /\ mapHas(series', series[i].key)
              /\ mapGet(series', series[i].key) = series[i].points
    /\ getSeriesCount(series') =
          getSeriesCount(series) - (IF mapHas(series, k) THEN 1 ELSE 0)

\* C11 as claimed: clear(name, url) removes exactly the series keyed by (name, url)
\* and leaves the points of every other series unchanged; clear() with no
\* arguments removes every series, after which getSeriesCount() is 0.
C11_ClearRemovesKeyed ==
    [][ret'.op = "clear" =>
          IF ret'.name = Undefined
          THEN getSeriesCount(series') = 0
          ELSE RemovesOnly(key(ret'.name, ret'.url))]_vars

\* C11 as amended: clear(name, url) with a non-empty name removes exactly the
\* series keyed by (name, url) and leaves every other series unchanged; clear()
\* with no name, or with the empty name, removes every series.
C11_ClearRemovesKeyedOrAll ==
    [][ret'.op = "clear" =>
          IF Truthy(ret'.name)
          THEN RemovesOnly(key(ret'.name, ret'.url))
          ELSE getSeriesCount(series') = 0]_vars

\* C11 witness: clear(name, url) has removed one of two series and left the other
\* with its points
C11_Witness ==
    /\ ret.op = "clear"
    /\ Truthy(ret.name)
    /\ ret.had = 2
    /\ getSeriesCount(series) = 1
    /\ series[1].points # <<>>

----------------------------------------------------------------------------
(* Claims about series keys, checked under SpecKeys *)

\* every point the store holds
StoredPoints == UNION {{series[i].points[j] : j \in 1..Len(series[i].points)} :
                          i \in 1..Len(series)}

\* every point appended and not cleared since
AppendedPoints == UNION {{appended[k][j] : j \in 1..Len(appended[k])} : k \in AllKeys}

\* the index of the series that holds point q
SeriesOf(q) ==
    CHOOSE i \in 1..Len(series) : \E j \in 1..Len(series[i].points) : series[i].points[j] = q

\* neither the name nor the url of point q contains the separator
Unbarred(q) == ~includesBar(q.name) /\ (q.url # Undefined => ~includesBar(q.url))

\* the url of q, or Undefined when it is absent or empty
UrlOrAbsent(q) == IF Truthy(q.url) THEN q.url ELSE Undefined

\* C12 as claimed: provided neither name nor url contains '|', two data points are
\* stored in the same series iff they have the same name and the same url (or
\* both have no url); getSeriesCount() equals the number of distinct
\* (name, url-or-absent) pairs appended since the last clear.
C12_SeriesPerNameAndUrl ==
    (\A q \in AppendedPoints : Unbarred(q)) =>
        /\ \A q1, q2 \in StoredPoints :
              SeriesOf(q1) = SeriesOf(q2) <=> q1.name = q2.name /\ q1.url = q2.url
        /\ ret.op = "getSeriesCount" =>
              ret.val = Cardinality({<<q.name, q.url>> : q \in AppendedPoints})

\* C12 as amended: the same, an empty url counting as no url.
C12_SeriesPerNameAndUrlOrAbsent ==
    (\A q \in AppendedPoints : Unbarred(q)) =>
        /\ \A q1, q2 \in StoredPoints :
              SeriesOf(q1) = SeriesOf(q2)
                  <=> q1.name = q2.name /\ UrlOrAbsent(q1) = UrlOrAbsent(q2)
        /\ ret.op = "getSeriesCount" =>
              ret.val = Cardinality({<<q.name, UrlOrAbsent(q)>> : q \in AppendedPoints})

\* C12 witness: getSeriesCount() returned 2 for three points without separator,
\* two of them in one series, one with an empty and one with no url
C12_Witness ==
    /\ ret.op = "getSeriesCount"
    /\ ret.val = 2
    /\ \A q \in AppendedPoints : Unbarred(q)
    /\ \E q1, q2 \in StoredPoints :
          /\ q1.url = <<>>
          /\ q2.url = Undefined
          /\ SeriesOf(q1) = SeriesOf(q2)

----------------------------------------------------------------------------
(* Claims about interleavings, checked under SpecSteps *)

\* the step is a detection sweep
Sweeping == DetectAnomalies \/ DetectRegressions

\* C13: under any interleaving of addDataPoint calls and detection sweeps, each
\* append (including its truncation) takes effect atomically: what a sweep
\* finds in a series is a suffix of the samples appended to it, all of them when
\* they are no more than windowSize * 10, and never more than windowSize * 10.
C13_AtomicAppends ==
    [][Sweeping =>
          \A k \in AllKeys :
              /\ Len(Stored(k)) <= Len(appended[k])
              /\ Stored(k) = LastN(appended[k], Len(Stored(k)))
              /\ Len(appended[k]) <= config.windowSize * 10 => Stored(k) = appended[k]
              /\ Len(Stored(k)) <= config.windowSize * 10]_vars

----------------------------------------------------------------------------
(* Claims about analyzeTrend, checked under Spec *)

\* the summary of the analyzeTrend call that has just returned, if it returned one
Trend == IF ret.op = "analyzeTrend" /\ ret.val # Null THEN <<ret.val>> ELSE <<>>

\* the timestamp-sorted values of the series that call was about
TrendValues == valuesOf(sortByTimestamp(Stored(key(ret.name, ret.url))))

\* C14: analyzeTrend(name, url) returns null exactly when the named series does
\* not exist or holds fewer than minSamples points; otherwise it returns a summary
\* whose ewmaValues has one entry per stored point of that series.
C14_TrendNullOrSummary ==
    ret.op = "analyzeTrend" =>
        LET k == key(ret.name, ret.url)
        IN  /\ ret.val = Null <=>
                  ~mapHas(series, k) \/ getDataPointCount(series, ret.name, ret.url)
                                            < config.minSamples
            /\ ret.val # Null =>
                  Len(ret.val.ewmaValues) = getDataPointCount(series, ret.name, ret.url)

\* C14 witness: a summary of a series of three points or more, with as many
\* ewmaValues, the last of them smoothed
C14_Witness ==
    \E j \in 1..Len(Trend) :
        /\ Len(Trend[j].ewmaValues) >= 3
        /\ Len(Trend[j].ewmaValues) = Len(TrendValues)
        /\ Trend[j].ewmaValues[Len(TrendValues)] # TrendValues[Len(TrendValues)]

\* C20: detectAnomalies, detectRegressions, analyzeTrend, getSeriesCount and
\* getDataPointCount leave the series store unchanged: they create no series (also
\* when asked about an unknown key) and do not remove or reorder stored points.
C20_ReadersLeaveStore ==
    [][ret'.op \in {"detectAnomalies", "detectRegressions", "analyzeTrend",
                    "getSeriesCount", "getDataPointCount"}
          => series' = series]_vars

\* C20 witness: getDataPointCount has returned 0 for a key the store does not
\* have, in a store that holds a series out of timestamp order
C20_Witness ==
    /\ ret.op = "getDataPointCount"
    /\ ret.val = 0
    /\ ~mapHas(series, key(ret.name, ret.url))
    /\ \E i \in 1..Len(series) :
          series[i].points # sortByTimestamp(series[i].points)

\* the window size of that call: min(configured windowSize, floor(n / 2))
TrendWindow == Min(config.windowSize, Len(TrendValues) \div 2)

\* C15 as claimed: with w = min(configured windowSize, floor(n/2)) over the n
\* timestamp-sorted values, recentMean is the mean of the first w values and
\* baselineMean is the mean of the last w values, and the two slices do not overlap.
C15_RecentFirstBaselineLast ==
    \A j \in 1..Len(Trend) :
        LET values == TrendValues
            w == TrendWindow
        IN  /\ Trend[j].recentMean = mean(SubSeq(values, 1, w))
            /\ Trend[j].baselineMean = mean(LastN(values, w))
            /\ (1..w) \cap ((Len(values) - w + 1)..Len(values)) = {}

\* C15 as amended: recentMean is the mean of the last w values, of all the values
\* when w = 0, and baselineMean is the mean of the first w values, 0 when w = 0;
\* the two slices do not overlap.
C15_RecentLastBaselineFirst ==
    \A j \in 1..Len(Trend) :
        LET values == TrendValues
            w == TrendWindow
            recent == IF w = 0 THEN 1..Len(values) ELSE (Len(values) - w + 1)..Len(values)
            baseline == 1..w
        IN  /\ Trend[j].recentMean = mean([i \in 1..Cardinality(recent) |->
                                              values[Len(values) - Cardinality(recent) + i]])
            /\ Trend[j].baselineMean = mean(SubSeq(values, 1, w))
            /\ w = 0 => Trend[j].baselineMean = Zero
            /\ recent \cap baseline = {}

\* C15 witness: a summary over a window of two values whose recent mean is above
\* its baseline mean
C15_Witness ==
    \E j \in 1..Len(Trend) :
        /\ TrendWindow = 2
        /\ RGt(Trend[j].recentMean, Trend[j].baselineMean)
        /\ Trend[j].baselineMean = mean(SubSeq(TrendValues, 1, 2))

----------------------------------------------------------------------------
(* Claims about the pure functions, checked under SpecPure *)

\* the absolute value of a rational
RAbs(a) == Rat(Abs(a[1]), a[2])

\* C16: whenever linearTrend returns 'degrading' the returned slope is > 0,
\* whenever it returns 'improving' the slope is < 0, and it returns 'stable'
\* exactly when |slope / mean| < 0.005 (where the mean is not 0).
C16_DirectionBySlope ==
    ret.op = "linearTrend" =>
        /\ ret.val.direction = "degrading" => RGt(ret.val.slope, Zero)
        /\ ret.val.direction = "improving" => RLt(ret.val.slope, Zero)
        /\ mean(ret.values) # Zero =>
              (ret.val.direction = "stable"
                  <=> RLt(RAbs(RDiv(ret.val.slope, mean(ret.values))), Rat(5, 1000)))

\* the thresholds the claims name for a metric: the custom entry, else the entry
\* of the built-in table, else none
EntryOf(name, customThresholds) ==
    IF name \in DOMAIN customThresholds THEN <<customThresholds[name]>>
    ELSE IF name \in DOMAIN WEB_VITALS_THRESHOLDS THEN <<WEB_VITALS_THRESHOLDS[name]>>
    ELSE <<>>

\* C17: rateMetric(name, value, custom) uses the custom entry for name if present,
\* else the built-in table entry, else the generic boundaries 1000/3000, and
\* returns 'good' when value <= good boundary, 'needs-improvement' when
\* value <= needsImprovement boundary, and 'poor' otherwise.
C17_RateByEntry ==
    ret.op = "rateMetric" =>
        LET entry == EntryOf(ret.name, ret.customThresholds)
            bounds == IF entry # <<>> THEN entry[1]
                      ELSE [good |-> Num(1000), needsImprovement |-> Num(3000)]
        IN  ret.val = IF RLe(ret.value, bounds.good) THEN "good"
                      ELSE IF RLe(ret.value, bounds.needsImprovement)
                           THEN "needs-improvement"
                      ELSE "poor"

\* C18: getSeverity(name, value) returns 'info' for every value when name has no
\* threshold entry; for a known metric it returns 'critical' when
\* value / needsImprovement > 1.5, 'warning' when that ratio is > 1.0 and <= 1.5,
\* and 'info' otherwise.
C18_SeverityByRatio ==
    ret.op = "getSeverity" =>
        LET entry == EntryOf(ret.name, ret.customThresholds)
        IN  IF entry = <<>> THEN ret.val = "info"
            ELSE LET ratio == RDiv(ret.value, entry[1].needsImprovement)
                 IN  ret.val = IF RGt(ratio, Rat(3, 2)) THEN "critical"
                               ELSE IF RGt(ratio, Num(1)) /\ RLe(ratio, Rat(3, 2))
                                    THEN "warning"
                               ELSE "info"

\* C18 witness: a value of exactly 1.5 times the upper boundary of LCP is a warning
C18_Witness ==
    /\ ret.op = "getSeverity"
    /\ ret.name = LCP
    /\ ret.customThresholds = NoThresholds
    /\ ret.value = Num(6000)
    /\ ret.val = "warning"

\* x is a finite number
Finite(x) == x \notin {NaN, NotThere}

\* the returned value and what it should be for the degenerate arguments: num tells
\* which values count as a number, inDomain for which p percentile is to return one
TotalOn(num(_), inDomain(_)) ==
    /\ ret.op = "mean" =>
          num(ret.val) /\ (ret.values = <<>> => ret.val = Zero)
    /\ ret.op = "median" =>
          num(ret.val) /\ (ret.values = <<>> => ret.val = Zero)
    /\ ret.op = "variance" =>
          num(ret.val) /\ (Len(ret.values) < 2 => ret.val = Zero)
    /\ ret.op = "stdDev" =>
          num(ret.val.sq) /\ (Len(ret.values) < 2 => ret.val.sq = Zero)
    /\ ret.op = "percentile" =>
          /\ inDomain(ret.p) => num(ret.val)
          /\ ret.values = <<>> => ret.val = Zero
    /\ ret.op = "zScore" =>
          num(ret.val.sq) /\ (ret.populationStdDev.sq = Zero => ret.val = ZZero)
    /\ ret.op = "movingAverage" =>
          Len(ret.val) >= 1 /\ \A i \in 1..Len(ret.val) : num(ret.val[i])
    /\ ret.op = "ewma" =>
          /\ Len(ret.val) = Len(ret.values)
          /\ \A i \in 1..Len(ret.val) : num(ret.val[i])
    /\ ret.op = "linearTrend" => num(ret.val.slope)

\* the value is of the type number
IsNumber(x) == x # NotThere

AnyParameter(p) == TRUE

WithinPercents(p) == RLe(Zero, p) /\ RLe(p, Num(100))

----------------------------------------------------------------------------
(* Claims about the windows of the detectors, checked under Spec *)

\* the place of points[i] in timestamp order, points of one timestamp in the order
\* they were appended in
TimeRank(points, i) ==
    1 + Cardinality({j \in 1..Len(points) :
                        \/ points[j].timestamp < points[i].timestamp
                        \/ points[j].timestamp = points[i].timestamp /\ j < i})

\* the points in timestamp order
TimeOrdered(points) ==
    [r \in 1..Len(points) |->
        points[CHOOSE i \in 1..Len(points) : TimeRank(points, i) = r]]

\* C21: for each series, detectAnomalies evaluates the stored point with the
\* greatest timestamp (its value and timestamp are the ones reported) against the
\* up-to-windowSize points that immediately precede it in timestamp order,
\* whatever order the points were appended in.
C21_LatestAgainstPreceding ==
    \A j \in 1..Len(Anomalies) :
        LET r == Anomalies[j]
            points == Stored(r.metric)
            n == Len(points)
            ordered == TimeOrdered(points)
            w == Min(config.windowSize, n - 1)
            preceding == [i \in 1..w |-> ordered[n - 1 - w + i].value]
        IN  /\ r.value = ordered[n].value
            /\ r.timestamp = ordered[n].timestamp
            /\ \A i \in 1..n : points[i].timestamp <= r.timestamp
            /\ r.zScore = zScore(r.value, mean(preceding), stdDev(preceding))

\* C21 witness: a result for a series whose latest point was not the last one
\* appended, evaluated against the two points before it
C21_Witness ==
    \E j \in 1..Len(Anomalies) :
        LET points == Stored(Anomalies[j].metric)
        IN  /\ Len(points) >= 3
            /\ config.windowSize = 2
            /\ points[Len(points)].timestamp < Anomalies[j].timestamp
            /\ Anomalies[j].zScore # ZZero

----------------------------------------------------------------------------
(* Claims about the series an alert names, checked under SpecAlerts *)

\* alert a is what detectRegressions computes from the series of entry
ComputedFrom(a, entry) ==
    \E i \in 1..Len(regressionOf(config, entry, a.detectedAt)) :
        regressionOf(config, entry, a.detectedAt)[i] = a

\* C23: every RegressionAlert's metric equals the name, and its url equals the url
\* (absent when there is none), of the data points of the series the alert was
\* computed from.
C23_AlertNamesItsSeries ==
    \A j \in 1..Len(Alerts) :
        \A i \in 1..Len(series) :
            ComputedFrom(Alerts[j], series[i]) =>
                \A h \in 1..Len(series[i].points) :
                    /\ Alerts[j].metric = series[i].points[h].name
                    /\ Alerts[j].url = UrlOrAbsent(series[i].points[h])

----------------------------------------------------------------------------
(* Claims about a baseline of equal values, checked under SpecRounded *)

\* the values are all equal
Constant(values) == \A i, j \in 1..Len(values) : values[i] = values[j]

\* the values, in timestamp order, of the w stored points of key k that end
\* before the last `after` points
ValuesBefore(k, w, after) ==
    LET ordered == TimeOrdered(Stored(k))
        n == Len(ordered)
    IN  [i \in 1..w |-> ordered[n - after - w + i].value]

\* C24: when all values of the comparison baseline are equal, no detection fires
\* whatever the new values are: for zScoreThreshold >= 0 detectAnomalies reports
\* zScore 0 with isAnomaly = false for that series, and detectRegressions emits no
\* alert for a series whose previous window is constant.
C24_ConstantBaselineSilent ==
    /\ \A j \in 1..Len(Anomalies) :
          LET r == Anomalies[j]
              w == Min(config.windowSize, Len(Stored(r.metric)) - 1)
          IN  (Constant(ValuesBefore(r.metric, w, 1)) /\ config.zScoreThreshold[1] >= 0)
                  => (r.zScore = ZZero /\ ~r.isAnomaly)
    /\ \A j \in 1..Len(Alerts) :
          LET a == Alerts[j]
          IN  ~Constant(ValuesBefore(key(a.metric, a.url), a.windowSize, a.windowSize))

----------------------------------------------------------------------------
(* Claims about customThresholds, checked under SpecCustom *)

\* the configuration cfg without customThresholds
WithoutCustom(cfg) == [f \in DOMAIN cfg \ {"customThresholds"} |-> cfg[f]]

\* the configuration cfg with the customThresholds c
WithCustom(cfg, c) ==
    [f \in DOMAIN cfg \cup {"customThresholds"} |->
        IF f = "customThresholds" THEN c ELSE cfg[f]]

\* the configurations that differ from the detector's in customThresholds at most
Differing ==
    {WithoutCustom(config)} \cup {WithCustom(config, c) : c \in CustomThresholds}

----------------------------------------------------------------------------
(* Claims relating getSeverity to rateMetric, checked under SpecPure *)

\* the call that has returned was made on a metric that has a threshold entry
\* with a positive needsImprovement boundary
OnPositiveEntry ==
    /\ ret.op \in {"rateMetric", "getSeverity"}
    /\ EntryOf(ret.name, ret.customThresholds) # <<>>
    /\ RGt(EntryOf(ret.name, ret.customThresholds)[1].needsImprovement, Zero)

\* the entry's good boundary is not above its needsImprovement boundary
EntryOrdered ==
    LET entry == EntryOf(ret.name, ret.customThresholds)[1]
    IN  RLe(entry.good, entry.needsImprovement)

\* the call that has returned and the other function on the same name, value and
\* overrides agree: 'warning' or 'critical' exactly with 'poor'
SeverityWithPoor ==
    /\ ret.op = "getSeverity" =>
          (ret.val \in {"warning", "critical"}
              <=> rateMetric(ret.name, ret.value, ret.customThresholds) = "poor")
    /\ ret.op = "rateMetric" =>
          (getSeverity(ret.name, ret.value, ret.customThresholds)
                  \in {"warning", "critical"}
              <=> ret.val = "poor")

\* C26: for any metric that has a threshold entry with a positive needsImprovement
\* boundary, getSeverity returns 'warning' or 'critical' exactly when rateMetric
\* returns 'poor' for the same name, value and overrides.
C26_SeverityIffPoor == OnPositiveEntry => SeverityWithPoor

\* C26 amended: the same, for entries whose good boundary is at most their
\* needsImprovement boundary.
C26_SeverityIffPoorOrdered == (OnPositiveEntry /\ EntryOrdered) => SeverityWithPoor

\* C26 witness: a value just above the upper boundary of LCP is rated 'poor', and
\* one on the boundary is of severity 'info'
C26_Witness ==
    /\ OnPositiveEntry
    /\ ret.name = LCP
    /\ ret.customThresholds = NoThresholds
    /\ \/ ret.op = "rateMetric" /\ ret.value = Num(4001) /\ ret.val = "poor"
       \/ ret.op = "getSeverity" /\ ret.value = Num(4000) /\ ret.val = "info"

----------------------------------------------------------------------------
(* Claims about the Transport, checked under SpecTransport *)

\* C27: Transport.send attempts a given payload at most maxRetries times and then
\* stops retrying it, also when several payloads are being sent or retried at the
\* same time: no payload is fetched more than maxRetries times.
C27_AtMostMaxRetries == \A s \in sends : s.attempts <= agentConfig.maxRetries

----------------------------------------------------------------------------
(* Claims about what becomes of a metric, checked under SpecTransportFair *)

\* metric m is in a payload whose send succeeded, or in the offline queue
Settled(m) == m \in history.sent \/ m \in Range(localStorage)

\* C28: with enableOfflineQueue on, every metric passed to Transport.enqueue
\* eventually ends up either in a payload whose send succeeded or in the offline
\* queue: no metric is dropped silently and every payload eventually stops being
\* retried.
C28_EveryMetricSettles ==
    \A m \in Metrics :
        (agentConfig.enableOfflineQueue /\ m \in history.enqueued) ~> Settled(m)

----------------------------------------------------------------------------
(* Claims about the offline queue, checked under SpecOffline *)

\* C29: after any sequence of saveToOfflineQueue calls the offline queue held in
\* localStorage contains at most 1000 metrics, and they are the most recently
\* saved ones.
C29_LastThousandSaved ==
    /\ Len(localStorage) <= 1000
    /\ localStorage = LastN(history.saved, Min(1000, Len(history.saved)))

\* C29 witness: more than 1000 metrics were saved, in several calls, and the offline
\* queue is full
C29_Witness ==
    /\ history.calls >= 3
    /\ Len(history.saved) > 1000
    /\ Len(localStorage) = 1000
    /\ localStorage[1][1] # localStorage[1000][1]

----------------------------------------------------------------------------
(* Claims about batching, checked under SpecTransport *)

\* the number of places metric m has in the queue
TimesQueued(m) == Cardinality({i \in 1..Len(queue) : queue[i] = m})

\* C30: after Transport.enqueue returns, the in-memory send queue holds fewer than
\* batchSize metrics (for batchSize >= 1), and each enqueued metric is placed in
\* exactly one payload by flush / flushWithBeacon: it waits in the queue, once and
\* in no payload yet, or it has left the queue and was placed in one payload.
C30_BatchedOnce ==
    /\ agentConfig.batchSize >= 1 => Len(queue) < agentConfig.batchSize
    /\ \A m \in history.enqueued :
          \/ TimesQueued(m) = 1 /\ history.placed[m] = 0
          \/ TimesQueued(m) = 0 /\ history.placed[m] = 1

\* C30 witness: under batchSize 2, one metric waits in the queue after two others
\* left it in one payload
C30_Witness ==
    /\ agentConfig.batchSize = 2
    /\ Len(queue) = 1
    /\ \E s \in sends : Len(s.metrics) = 2 /\ \A i \in 1..2 : history.placed[s.metrics[i]] = 1
    /\ \E m \in history.enqueued : m \in Range(queue)

====
